---- MODULE Spec2Model ----
(***************************************************************************)
(* Finance-Tracker: the budget pacing recommender (BudgetRLService), the   *)
(* budget and transaction routes that feed and trigger it, and the         *)
(* BudgetRL history record it keeps.                                       *)
(*                                                                         *)
(* Numbers.  JavaScript numbers are modelled as exact rationals n/d with   *)
(* d >= 0; 1/0 is +Infinity.  Money amounts are whole numbers.  The double *)
(* rounding of intermediate quotients is modelled for the pace alone, in   *)
(* the section on doubles.                                                 *)
(***************************************************************************)
EXTENDS Integers, Sequences, FiniteSets, TLC

VARIABLES
    today,        \* [year, month, day] of new Date()
    budgetDocs,   \* the Budget collection
    monthlyDocs,  \* the MonthlyBudget collection
    txDocs,       \* the Transaction collection
    rlDocs,       \* the BudgetRL collection (recommendation history records)
    nextId,       \* next fresh _id of each collection, and the next request number
    req,          \* per request slot: the handler's position and locals
    last,         \* how the request answered most recently ended
    calls,        \* the awaited generateRecommendations calls that returned, with their lists
    pace,         \* the pure pacing functions: their input and results
    clock,        \* Date.now(), in the time unit of the specification that advances it
    userDocs,     \* the User collection
    mailbox,      \* the e-mails sent: the tokens their links carry, the budget alerts
    sessions      \* req.session of each browser's session cookie

vars == <<today, budgetDocs, monthlyDocs, txDocs, rlDocs, nextId, req, last, calls, pace, clock, userDocs, mailbox,
          sessions>>

----------------------------------------------------------------------------
(* Bounds *)

MaxBudgetDocs == 3
MaxTxDocs == 2
NumSlots == 2
MaxRequests == 4
MaxSpentSteps == 24
GenMaxBudgets == 3
GenMaxTxs == 2

(* Program constants *)

HistoryKeepDays == 30
OverallWarnPace == 110
OverallGoodPace == 90
MinRecommendations == 3

----------------------------------------------------------------------------
(* new Date() *)

Now == [year |-> 2025, month |-> 4, day |-> 15]

CurYear == Now.year

CurMonth == Now.month

PastMonth == Now.month - 1

(* JavaScript values *)

JSUndefined == [t |-> "undefined"]

JSNum(v) == [t |-> "number", v |-> v]

JSBudgetObj(amount) == [t |-> "object", amount |-> JSNum(amount)]

\* x.amount: a property read; on a Number primitive it yields undefined
PropAmount(x) == IF x.t = "object" THEN x.amount ELSE JSUndefined

\* parseFloat(x) || 0: NaN (from undefined) and 0 both give 0
ParseFloatOrZero(x) == IF x.t = "number" THEN x.v ELSE 0

(* Rationals *)

Rat(n, d) == [n |-> n, d |-> d]

Infinity == Rat(1, 0)

RatInt(k) == Rat(k, 1)

RatGT(a, k) == a.n > k * a.d

RatGE(a, k) == a.n >= k * a.d

RatLE(a, k) == a.n <= k * a.d

RatLT(a, k) == a.n < k * a.d

RatSubInt(a, k) == Rat(a.n - k * a.d, a.d)

\* the clamp left out: the second argument as it is
MaxIsSecond(a, b) == b

\* Math.max(1, currentDay)
Max(a, b) == IF a >= b THEN a ELSE b

\* Math.ceil(n / d) for d > 0
CeilDiv(n, d) == IF n >= 0 THEN (n + d - 1) \div d ELSE -((-n) \div d)

\* Intl.NumberFormat(..., {maximumFractionDigits: 0}).format(num): the number
\* rounded to a whole amount, halves away from zero
formatCurrency(a) ==
    IF a.n >= 0 THEN (2 * a.n + a.d) \div (2 * a.d)
    ELSE -((2 * (-a.n) + a.d) \div (2 * a.d))

\* new Date(year, month, 0).getDate() for CurYear (not a leap year)
DaysInMonth(month) ==
    IF month = 2 THEN 28
    ELSE IF month \in {4, 6, 9, 11} THEN 30
    ELSE 31

----------------------------------------------------------------------------
(* BudgetRLService.calculateBudgetPace *)

PacePercentageZeroWithoutIdeal(spent, idealSpentByNow) ==
    IF idealSpentByNow.n > 0
    THEN Rat(spent * 100 * idealSpentByNow.d, idealSpentByNow.n)
    ELSE RatInt(0)

\* the quotient taken the other way round: ideal spending over spent
PacePercentageInverted(spent, idealSpentByNow) ==
    IF idealSpentByNow.n > 0
    THEN Rat(idealSpentByNow.n * 100, spent * idealSpentByNow.d)
    ELSE IF spent > 0 THEN Infinity ELSE RatInt(0)

\* idealSpentByNow > 0 ? (spent / idealSpentByNow) * 100 : (spent > 0 ? Infinity : 0)
PacePercentage(spent, idealSpentByNow) ==
    IF idealSpentByNow.n > 0
    THEN Rat(spent * 100 * idealSpentByNow.d, idealSpentByNow.n)
    ELSE IF spent > 0 THEN Infinity ELSE RatInt(0)

calculateBudgetPace(budget, spent, currentDay, daysInMonth) ==
    LET budgetAmount == ParseFloatOrZero(PropAmount(budget))
        daysPassed == Max(1, currentDay)
        idealSpentByNow == Rat(budgetAmount * daysPassed, daysInMonth)
        pacePercentage == PacePercentage(spent, idealSpentByNow)
        dailyRate == Rat(spent, daysPassed)
        projectedSpending == Rat(spent * daysInMonth, daysPassed)
        remaining == budgetAmount - spent
        remainingDays == daysInMonth - daysPassed
        dailyBudget ==
            IF remainingDays > 0 THEN Rat(remaining, remainingDays) ELSE RatInt(0)
    IN  [spent |-> spent,
         pacePercentage |-> pacePercentage,
         dailyRate |-> dailyRate,
         projectedSpending |-> projectedSpending,
         remaining |-> remaining,
         dailyBudget |-> dailyBudget,
         idealSpentByNow |-> idealSpentByNow]

(* BudgetRLService.getPaceRecommendation *)

PaceTypeWarnAt100(pacePercentage) ==
    IF RatGE(pacePercentage, 100) THEN "warning"
    ELSE IF RatGE(pacePercentage, 90) THEN "caution"
    ELSE IF RatLE(pacePercentage, 60) THEN "positive"
    ELSE "info"

\* the if / else-if chain on pacePercentage
PaceType(pacePercentage) ==
    IF RatGT(pacePercentage, 100) THEN "warning"
    ELSE IF RatGE(pacePercentage, 90) THEN "caution"
    ELSE IF RatLE(pacePercentage, 60) THEN "positive"
    ELSE "info"

\* the warning branch: already overspent, or projected to overspend
WarningMessage(category, paceData, budgetAmount, daysLeft) ==
    IF paceData.remaining <= 0
    THEN [kind |-> "already_over_limit",
          category |-> category,
          spent |-> formatCurrency(RatInt(paceData.spent)),
          amount |-> formatCurrency(RatInt(paceData.spent)),
          days |-> daysLeft]
    ELSE LET overBudgetAmount == RatSubInt(paceData.projectedSpending, budgetAmount)
         IN  [kind |-> "projected_to_exceed",
              category |-> category,
              spent |-> formatCurrency(RatInt(paceData.spent)),
              amount |-> formatCurrency(overBudgetAmount),
              days |-> 0]

\* the caution branch; days = -1 stands for the Infinity of a zero dailyRate
CautionMessage(category, paceData, day) ==
    LET daysUntilExceeded ==
            IF paceData.dailyRate.n > 0
            THEN CeilDiv(paceData.remaining * paceData.dailyRate.d, paceData.dailyRate.n)
            ELSE -1
    IN  [kind |-> "exceed_in_days",
         category |-> category,
         spent |-> formatCurrency(RatInt(paceData.spent)),
         amount |-> day,
         days |-> daysUntilExceeded]

getPaceRecommendation(category, paceData, now) ==
    LET budgetAmount == ParseFloatOrZero(PropAmount(paceData.budget))
        daysInMonth == DaysInMonth(now.month)
        daysLeft == daysInMonth - now.day
        type == PaceType(paceData.pacePercentage)
        message ==
            CASE type = "warning" ->
                    WarningMessage(category, paceData, budgetAmount, daysLeft)
              [] type = "caution" ->
                    CautionMessage(category, paceData, now.day)
              [] type = "positive" ->
                    [kind |-> "strong_control", category |-> category,
                     spent |-> formatCurrency(RatInt(paceData.spent)),
                     amount |-> 0, days |-> daysLeft]
              [] OTHER ->
                    [kind |-> "on_track", category |-> category,
                     spent |-> formatCurrency(RatInt(paceData.spent)),
                     amount |-> 0, days |-> daysLeft]
    IN  [message |-> message, type |-> type]

----------------------------------------------------------------------------
(* JavaScript numbers as they are: IEEE 754 doubles.  A positive double is   *)
(* m * 2^e with m a sequence of DoubleBits bits, most significant first and  *)
(* m[1] = 1; every operation rounds its exact result to the nearest double,  *)
(* ties to even.  Only the pace of calculateBudgetPace is computed this way; *)
(* the rationals above leave the rounding out.                               *)

DoubleBits == 53

RECURSIVE Bits(_)
\* the binary digits of a natural number
Bits(n) == IF n = 0 THEN << >> ELSE Bits(n \div 2) \o << n % 2 >>

Zeros(k) == [i \in 1..k |-> 0]

\* the digits without the zeros in front
StripZeros(b) ==
    LET ones == {i \in 1..Len(b) : b[i] = 1}
    IN  IF ones = {} THEN << >>
        ELSE SubSeq(b, CHOOSE i \in ones : \A j \in ones : i <= j, Len(b))

\* what decides a comparison or a carry at digit i: the first digit after
\* i where test holds, 0 if there is none
FirstAfter(test, i) ==
    LET found == {j \in test : j > i}
    IN  IF found = {} THEN 0 ELSE CHOOSE j \in found : \A k \in found : j <= k

\* a >= b for digit sequences of one length
GeqBits(a, b) ==
    LET j == FirstAfter({k \in 1..Len(a) : a[k] # b[k]}, 0)
    IN  j = 0 \/ a[j] > b[j]

\* a - b for digit sequences of one length with a >= b: digit i borrows when
\* the digits after it are less in a than in b
SubBits(a, b) ==
    LET differ == {k \in 1..Len(a) : a[k] # b[k]}
    IN  [i \in 1..Len(a) |->
            LET j == FirstAfter(differ, i)
                borrow == IF j # 0 /\ a[j] < b[j] THEN 1 ELSE 0
            IN  (a[i] - b[i] - borrow + 2) % 2]

\* a + b: digit i takes a carry when the first digits after it that agree
\* are both 1
AddBits(a, b) ==
    LET w == 1 + (IF Len(a) >= Len(b) THEN Len(a) ELSE Len(b))
        x == Zeros(w - Len(a)) \o a
        y == Zeros(w - Len(b)) \o b
        agree == {k \in 1..w : x[k] = y[k]}
    IN  StripZeros([i \in 1..w |->
                       LET j == FirstAfter(agree, i)
                           carry == IF j # 0 /\ x[j] = 1 THEN 1 ELSE 0
                       IN  (x[i] + y[i] + carry) % 2])

RECURSIVE MulFrom(_, _, _, _)
\* a * b by shift and add over the digits of b
MulFrom(a, b, i, acc) ==
    IF i > Len(b) THEN acc
    ELSE LET doubled == IF acc = << >> THEN acc ELSE acc \o << 0 >>
         IN  MulFrom(a, b, i + 1, IF b[i] = 1 THEN AddBits(doubled, a) ELSE doubled)

\* one step of the long division of n by d: digit i of n is brought down to
\* the remainder r, d is taken off if it fits, q gets the digit
LongDivStep(n, d, i, st) ==
    LET shifted == Tail(st.r) \o << n[i] >>
        fits == GeqBits(shifted, d)
    IN  [q |-> st.q \o << IF fits THEN 1 ELSE 0 >>,
         r |-> IF fits THEN SubBits(shifted, d) ELSE shifted]

RECURSIVE LongDiv(_, _, _, _, _)
\* the steps for the digits lo..hi of n, in order, from the state st;
\* d and r are one digit wider than the divisor
LongDiv(n, d, lo, hi, st) ==
    IF lo > hi THEN st
    ELSE IF lo = hi THEN LongDivStep(n, d, lo, st)
    ELSE LET mid == (lo + hi) \div 2
             half == LongDiv(n, d, lo, mid, st)
         IN  \* every step adds one digit to q
             IF Len(half.q) = Len(st.q) + (mid - lo + 1)
             THEN LongDiv(n, d, mid + 1, hi, half)
             ELSE half

DoubleZero == [m |-> << >>, e |-> 0]

\* q * 2^e, with something non-zero below q's last digit when sticky, rounded
\* to the nearest double, ties to even
DoubleRound(q, sticky, e) ==
    IF q = << >> THEN DoubleZero
    ELSE IF Len(q) <= DoubleBits
    THEN [m |-> q \o Zeros(DoubleBits - Len(q)), e |-> e - (DoubleBits - Len(q))]
    ELSE LET top == SubSeq(q, 1, DoubleBits)
             guard == q[DoubleBits + 1]
             rest == sticky \/ \E i \in (DoubleBits + 2)..Len(q) : q[i] = 1
             up == guard = 1 /\ (rest \/ top[DoubleBits] = 1)
             m == IF up THEN AddBits(top, << 1 >>) ELSE top
         IN  [m |-> SubSeq(m, 1, DoubleBits),
              e |-> e + (Len(q) - DoubleBits) + (Len(m) - DoubleBits)]

\* the double nearest to (n / d) * 2^e for digit sequences n and d, d not 0
DoubleRatio(n, d, e) ==
    IF n = << >> THEN DoubleZero
    ELSE LET want == DoubleBits + 2 + Len(d) - Len(n)
             s == IF want > 0 THEN want ELSE 0
             res == LongDiv(n \o Zeros(s), << 0 >> \o d, 1, Len(n) + s,
                            [q |-> << >>, r |-> Zeros(Len(d) + 1)])
         IN  DoubleRound(StripZeros(res.q), \E i \in 1..Len(res.r) : res.r[i] = 1,
                         e - s)

\* the same number with the zeros at the end of m moved into e
DoubleTrim(x) ==
    LET ones == {i \in 1..Len(x.m) : x.m[i] = 1}
        end == IF ones = {} THEN 0 ELSE CHOOSE i \in ones : \A j \in ones : i >= j
    IN  [m |-> SubSeq(x.m, 1, end), e |-> x.e + (Len(x.m) - end)]

\* a whole number as a double
DoubleOfInt(k) == DoubleRatio(Bits(k), << 1 >>, 0)

\* x / y
DoubleDiv(x, y) ==
    LET a == DoubleTrim(x)
        b == DoubleTrim(y)
    IN  DoubleRatio(a.m, b.m, a.e - b.e)

\* x * y
DoubleMul(x, y) ==
    LET a == DoubleTrim(x)
        b == DoubleTrim(y)
    IN  IF a.m = << >> \/ b.m = << >> THEN DoubleZero
        ELSE DoubleRatio(IF Len(a.m) >= Len(b.m) THEN MulFrom(a.m, b.m, 1, << >>)
                         ELSE MulFrom(b.m, a.m, 1, << >>),
                         << 1 >>, a.e + b.e)

\* x > 0
DoublePositive(x) == x # DoubleZero

\* idealSpentByNow = (budgetAmount / daysInMonth) * daysPassed
DoubleIdealSpentByNow(budgetAmount, daysPassed, daysInMonth) ==
    DoubleMul(DoubleDiv(DoubleOfInt(budgetAmount), DoubleOfInt(daysInMonth)),
              DoubleOfInt(daysPassed))

\* the percentage left out: spent / idealSpentByNow
DoublePaceAsFraction(spent, idealSpentByNow) ==
    IF DoublePositive(idealSpentByNow)
    THEN [kind |-> "number",
          value |-> DoubleDiv(DoubleOfInt(spent), idealSpentByNow)]
    ELSE IF spent > 0 THEN [kind |-> "Infinity"]
    ELSE [kind |-> "number", value |-> DoubleZero]

\* idealSpentByNow > 0 ? (spent / idealSpentByNow) * 100 : (spent > 0 ? Infinity : 0)
DoublePacePercentage(spent, idealSpentByNow) ==
    IF DoublePositive(idealSpentByNow)
    THEN [kind |-> "number",
          value |-> DoubleMul(DoubleDiv(DoubleOfInt(spent), idealSpentByNow),
                              DoubleOfInt(100))]
    ELSE IF spent > 0 THEN [kind |-> "Infinity"]
    ELSE [kind |-> "number", value |-> DoubleZero]

----------------------------------------------------------------------------
(* BudgetRLService.generateRecommendations: the computation of the list *)

RECURSIVE SumAmount(_)
\* .reduce((sum, x) => sum + x.amount, 0) over a collection of documents
SumAmount(docs) ==
    IF docs = {} THEN 0
    ELSE LET d == CHOOSE x \in docs : TRUE
         IN  d.amount + SumAmount(docs \ {d})

\* budget.month !== currentMonth || budget.year !== currentYear, negated
IsCurrentPeriod(b, now) == b.month = now.month /\ b.year = now.year

\* the filter without its test of the transaction type
BudgetExpensesOfAnyType(budget, transactions) ==
    {t \in transactions :
        /\ t.category = budget.category
        /\ t.month = budget.month
        /\ t.year = budget.year}

\* the expense filter of one budget: type, category, month and year
BudgetExpenses(budget, transactions) ==
    {t \in transactions :
        /\ t.type = "expense"
        /\ t.category = budget.category
        /\ t.month = budget.month
        /\ t.year = budget.year}

\* the loop body without its spent === 0 branch
BudgetRecommendationAlwaysPaced(budget, transactions, now) ==
    LET spent == SumAmount(BudgetExpenses(budget, transactions))
        paceData ==
            calculateBudgetPace(JSBudgetObj(budget.amount), spent,
                                now.day, DaysInMonth(now.month))
                @@ [budget |-> JSNum(budget.amount)]
        recommendation == getPaceRecommendation(budget.category, paceData, now)
    IN  [category |-> budget.category,
         message |-> recommendation.message,
         type |-> recommendation.type,
         date |-> now,
         pacePercentage |-> paceData.pacePercentage]

\* the recommendation pushed for one current-period budget
BudgetRecommendation(budget, transactions, now) ==
    LET spent == SumAmount(BudgetExpenses(budget, transactions))
        daysInMonth == DaysInMonth(now.month)
    IN  IF spent = 0
        THEN [category |-> budget.category,
              message |-> [kind |-> "no_spending", category |-> budget.category,
                           spent |-> 0,
                           amount |-> formatCurrency(RatInt(budget.amount)),
                           days |-> 0],
              type |-> "info",
              date |-> now,
              pacePercentage |-> RatInt(0)]
        ELSE LET paceData ==
                    calculateBudgetPace(JSBudgetObj(budget.amount), spent,
                                        now.day, daysInMonth)
                        @@ [budget |-> JSNum(budget.amount)]
                 recommendation == getPaceRecommendation(budget.category, paceData, now)
             IN  [category |-> budget.category,
                  message |-> recommendation.message,
                  type |-> recommendation.type,
                  date |-> now,
                  pacePercentage |-> paceData.pacePercentage]

\* budgets.filter(b => b.month === currentMonth && b.year === currentYear)
CurrentBudgets(budgets, now) ==
    SelectSeq(budgets, LAMBDA b : IsCurrentPeriod(b, now))

SeqRange(s) == {s[i] : i \in 1..Len(s)}

\* overallPace of the 'overall' step
OverallPace(budgets, transactions, now) ==
    LET totalBudget == SumAmount(SeqRange(CurrentBudgets(budgets, now)))
        totalSpent ==
            SumAmount({t \in transactions :
                          /\ t.type = "expense"
                          /\ t.month = now.month
                          /\ t.year = now.year})
    IN  IF totalBudget > 0
        THEN Rat(totalSpent * 100 * DaysInMonth(now.month), totalBudget * now.day)
        ELSE RatInt(0)

OverallTypeWarnAt110(overallPace) ==
    IF RatGE(overallPace, OverallWarnPace) THEN "warning"
    ELSE IF RatLT(overallPace, OverallGoodPace) THEN "positive"
    ELSE "positive"

\* the three-way branch on overallPace
OverallType(overallPace) ==
    IF RatGT(overallPace, OverallWarnPace) THEN "warning"
    ELSE IF RatLT(overallPace, OverallGoodPace) THEN "positive"
    ELSE "positive"

OverallMessage(overallPace) ==
    IF RatGT(overallPace, OverallWarnPace) THEN "slow_down"
    ELSE IF RatLT(overallPace, OverallGoodPace) THEN "doing_great"
    ELSE "on_track"

\* the entries pushed by the 'overall' step: none or one
OverallRecommendations(budgets, transactions, now) ==
    IF Len(CurrentBudgets(budgets, now)) > 1
    THEN LET overallPace == OverallPace(budgets, transactions, now)
         IN  << [category |-> "overall",
                 message |-> [kind |-> OverallMessage(overallPace)],
                 type |-> OverallType(overallPace)] >>
    ELSE << >>

GeneralTipsUpToThree(produced) ==
    IF Len(produced) <= MinRecommendations
    THEN << [message |-> [kind |-> "savings_goals"],
             type |-> "general", category |-> "general"],
            [message |-> [kind |-> "rule_50_30_20"],
             type |-> "general", category |-> "general"] >>
    ELSE << >>

\* the entries pushed by the padding step: none or the two general tips
GeneralTips(produced) ==
    IF Len(produced) < MinRecommendations
    THEN << [message |-> [kind |-> "savings_goals"],
             type |-> "general", category |-> "general"],
            [message |-> [kind |-> "rule_50_30_20"],
             type |-> "general", category |-> "general"] >>
    ELSE << >>

\* the per-budget loop: budgets outside the current period are skipped
PerBudgetRecommendations(budgets, transactions, now) ==
    LET cur == CurrentBudgets(budgets, now)
    IN  [i \in 1..Len(cur) |-> BudgetRecommendation(cur[i], transactions, now)]

\* the list generateRecommendations returns
RecommendationList(budgets, transactions, now) ==
    LET perBudget == PerBudgetRecommendations(budgets, transactions, now)
        produced == perBudget \o OverallRecommendations(budgets, transactions, now)
    IN  produced \o GeneralTips(produced)

----------------------------------------------------------------------------
(* Documents and request slots *)

Users == {"u1", "u2"}

Slots == 1..NumSlots

Idle == [pc |-> "idle"]

\* the browsers, each with its session cookie, and their sessions before
\* anybody has logged in
Browsers == {"b1"}

NoSessions == [b \in Browsers |-> [cookie |-> b]]

NoCall == [outcome |-> "none"]

NoLast == [op |-> "none", call |-> NoCall]

NoPace == [step |-> "unused"]

RECURSIVE SortById(_)
\* the documents of a find() in natural (insertion) order
SortById(docs) ==
    IF docs = {} THEN << >>
    ELSE LET d == CHOOSE x \in docs : \A y \in docs : x.id <= y.id
         IN  << d >> \o SortById(docs \ {d})

----------------------------------------------------------------------------
(* The pacing functions on their own: calculateBudgetPace, then                *)
(* getPaceRecommendation, called as generateRecommendations calls them.       *)

PaceAmounts == {0, 1000, 3000}

PaceSpents == {k * 150 : k \in 0..MaxSpentSteps}

PaceDays == {-1, 0, 1, 10, 15, 30}

PaceMonthLengths == {28, 30, 31}

InitPace ==
    /\ today = Now
    /\ budgetDocs = {}
    /\ monthlyDocs = {}
    /\ clock = 0
    /\ userDocs = {}
    /\ mailbox = {}
    /\ sessions = NoSessions
    /\ txDocs = {}
    /\ rlDocs = {}
    /\ nextId = [budget |-> 1, tx |-> 1, rl |-> 1, request |-> 1]
    /\ req = [s \in Slots |-> Idle]
    /\ last = NoLast
    /\ calls = {}
    /\ \E a \in PaceAmounts, sp \in PaceSpents, d \in PaceDays, m \in PaceMonthLengths :
          pace = [step |-> "input", category |-> "Food", amount |-> a, spent |-> sp,
                  currentDay |-> d, daysInMonth |-> m]

\* const paceData = this.calculateBudgetPace(budget, spent, currentDay, daysInMonth);
\* paceData.budget = budget.amount;
ComputePace ==
    /\ pace.step = "input"
    /\ pace' = [step |-> "paced", category |-> pace.category, amount |-> pace.amount,
                spent |-> pace.spent, currentDay |-> pace.currentDay,
                daysInMonth |-> pace.daysInMonth,
                paceData |->
                    calculateBudgetPace(JSBudgetObj(pace.amount), pace.spent,
                                        pace.currentDay, pace.daysInMonth)
                        @@ [budget |-> JSNum(pace.amount)]]
    /\ UNCHANGED <<sessions, today, budgetDocs, monthlyDocs, txDocs, rlDocs, nextId, req, last, calls,
                   clock, userDocs, mailbox>>

\* const recommendation = this.getPaceRecommendation(budget.category, paceData);
ClassifyPace ==
    /\ pace.step = "paced"
    /\ pace' = [step |-> "done", category |-> pace.category, amount |-> pace.amount,
                spent |-> pace.spent, currentDay |-> pace.currentDay,
                daysInMonth |-> pace.daysInMonth,
                paceData |-> pace.paceData,
                recommendation |->
                    getPaceRecommendation(pace.category, pace.paceData, today)]
    /\ UNCHANGED <<sessions, today, budgetDocs, monthlyDocs, txDocs, rlDocs, nextId, req, last, calls,
                   clock, userDocs, mailbox>>

NextPace == ComputePace \/ ClassifyPace

SpecPace == InitPace /\ [][NextPace]_vars

----------------------------------------------------------------------------
(* The pace of calculateBudgetPace in double arithmetic, for budgets that    *)
(* are spent to the last day or not at all.                                  *)

DoubleAmounts == {29, 61, 100, 1000, 3000, 4999}

InitDouble ==
    /\ today = Now
    /\ budgetDocs = {}
    /\ monthlyDocs = {}
    /\ clock = 0
    /\ userDocs = {}
    /\ mailbox = {}
    /\ sessions = NoSessions
    /\ txDocs = {}
    /\ rlDocs = {}
    /\ nextId = [budget |-> 1, tx |-> 1, rl |-> 1, request |-> 1]
    /\ req = [s \in Slots |-> Idle]
    /\ last = NoLast
    /\ calls = {}
    /\ \E a \in DoubleAmounts, m \in PaceMonthLengths :
       \E sp \in {0, a \div 2, a}, d \in {0, 1, m} :
          pace = [step |-> "input", amount |-> a, spent |-> sp,
                  currentDay |-> d, daysInMonth |-> m]

\* const daysPassed = Math.max(1, currentDay);
\* const idealSpentByNow = (budgetAmount / daysInMonth) * daysPassed;
DoubleComputeIdeal ==
    /\ pace.step = "input"
    /\ pace' = [step |-> "ideal", amount |-> pace.amount, spent |-> pace.spent,
                currentDay |-> pace.currentDay, daysInMonth |-> pace.daysInMonth,
                idealSpentByNow |->
                    DoubleIdealSpentByNow(pace.amount, Max(1, pace.currentDay),
                                          pace.daysInMonth)]
    /\ UNCHANGED <<sessions, today, budgetDocs, monthlyDocs, txDocs, rlDocs, nextId, req, last, calls,
                   clock, userDocs, mailbox>>

\* const pacePercentage = idealSpentByNow > 0 ? ... : ...;
DoubleComputePace ==
    /\ pace.step = "ideal"
    /\ pace' = [step |-> "done", amount |-> pace.amount, spent |-> pace.spent,
                currentDay |-> pace.currentDay, daysInMonth |-> pace.daysInMonth,
                idealSpentByNow |-> pace.idealSpentByNow,
                pacePercentage |->
                    DoublePacePercentage(pace.spent, pace.idealSpentByNow)]
    /\ UNCHANGED <<sessions, today, budgetDocs, monthlyDocs, txDocs, rlDocs, nextId, req, last, calls,
                   clock, userDocs, mailbox>>

NextDouble == DoubleComputeIdeal \/ DoubleComputePace

SpecDouble == InitDouble /\ [][NextDouble]_vars

----------------------------------------------------------------------------
(* generateRecommendations and its two callers, one request at a time, over   *)
(* a database drawn from the documents below.                                 *)

BudgetDoc(id, u, category, amount, month) ==
    [id |-> id, user |-> u, category |-> category, amount |-> amount,
     month |-> month, year |-> CurYear]

TxDoc(id, u, type, category, amount, month) ==
    [id |-> id, user |-> u, type |-> type, category |-> category,
     amount |-> amount, month |-> month, year |-> CurYear]

\* the budgets document id may be; keys (user, category, month, year) are unique
GenBudgetOptions(id) ==
    CASE id = 1 -> {BudgetDoc(1, "u1", "Food", a, CurMonth) : a \in {0, 3000}}
      [] id = 2 -> {BudgetDoc(2, "u1", "Rent", a, CurMonth) : a \in {0, 1000}}
      [] id = 3 -> {BudgetDoc(3, "u1", "Travel", 2000, m) : m \in {PastMonth, CurMonth}}
      [] OTHER -> {BudgetDoc(id, "u1", "Food", 1000, CurMonth + id)}

\* the transactions document id may be
GenTxOptions(id) ==
    CASE id = 1 -> {TxDoc(1, "u1", "expense", "Food", a, CurMonth) : a \in {1800, 3200}}
      [] id = 2 -> {TxDoc(2, "u1", "expense", "Rent", a, CurMonth) : a \in {400, 600}}
      [] id = 3 -> {TxDoc(3, "u1", "income", "Food", 600, CurMonth),
                    TxDoc(3, "u1", "expense", "Food", 600, PastMonth),
                    TxDoc(3, "u1", "expense", "Misc", 600, CurMonth)}
      [] OTHER -> {TxDoc(id, "u1", "saving", "Food", 600, CurMonth)}

\* every choice of at most one document per id
DocChoices(options) ==
    {D \in SUBSET options : \A x \in D, y \in D : x.id = y.id => x = y}

\* history entries written by the Q-learning revision of the service
LegacyEntry(daysAgo) ==
    [recommendation |-> [kind |-> "legacy"], followed |-> "null", daysAgo |-> daysAgo]

RlDoc(id, u, history) == [id |-> id, userId |-> u, recommendationHistory |-> history]

GenRlOptions ==
    { {},
      {RlDoc(1, "u1", << >>)},
      {RlDoc(1, "u1", << LegacyEntry(40), LegacyEntry(10) >>)} }

InitGen ==
    /\ today = Now
    /\ budgetDocs \in DocChoices(UNION {GenBudgetOptions(i) : i \in 1..GenMaxBudgets})
    /\ txDocs \in DocChoices(UNION {GenTxOptions(i) : i \in 1..GenMaxTxs})
    /\ monthlyDocs = {}
    /\ clock = 0
    /\ userDocs = {}
    /\ mailbox = {}
    /\ sessions = NoSessions
    /\ rlDocs \in GenRlOptions
    /\ nextId = [budget |-> GenMaxBudgets + 1, tx |-> GenMaxTxs + 1,
                 rl |-> Cardinality(rlDocs) + 1, request |-> 1]
    /\ req = [s \in Slots |-> Idle]
    /\ last = NoLast
    /\ calls = {}
    /\ pace = NoPace

\* the request slot SpecGen runs its requests in, one at a time
GenSlot == CHOOSE s \in Slots : \A t \in Slots : s <= t

\* what is left of the handler that started a recompute without awaiting it
NoTail == [pc |-> "none"]

\* the routes start the recompute with .catch(...) only: its result is dropped
FireAndForget(r) == r.caller \notin {"GET /budgets", "updateRecommendationsRealTime"}

\* updateRecommendationsRealTime entered: await Budget.find(...)
UpdateCall(caller, u, tail) ==
    [pc |-> "update_findBudgets", caller |-> caller, user |-> u, tail |-> tail]

\* generateRecommendations entered: await this.getOrCreateModel(userId)
GenCall(caller, u, budgets, transactions, tail) ==
    [pc |-> "gen_findModel", caller |-> caller, user |-> u,
     budgets |-> budgets, transactions |-> transactions, tail |-> tail]

\* model.recommendationHistory.filter(rec => (now - recDate) > 30 days)
FilterHistory(history) ==
    SelectSeq(history, LAMBDA rec : rec.daysAgo > HistoryKeepDays)

GenComputedReturningHistory(r, model) ==
    [pc |-> "gen_save", caller |-> r.caller, user |-> r.user,
     budgets |-> r.budgets, transactions |-> r.transactions, tail |-> r.tail,
     historyRead |-> model.recommendationHistory,
     model |-> [model EXCEPT !.recommendationHistory = FilterHistory(@)],
     recommendations |->
        [i \in 1..Len(model.recommendationHistory) |->
            [category |-> "general",
             message |-> model.recommendationHistory[i].recommendation,
             type |-> "general"]]
        \o RecommendationList(r.budgets, r.transactions, today)]

\* from the resumption after getOrCreateModel up to the call of model.save()
GenComputed(r, model) ==
    [pc |-> "gen_save", caller |-> r.caller, user |-> r.user,
     budgets |-> r.budgets, transactions |-> r.transactions, tail |-> r.tail,
     historyRead |-> model.recommendationHistory,
     model |-> [model EXCEPT !.recommendationHistory = FilterHistory(@)],
     recommendations |-> RecommendationList(r.budgets, r.transactions, today)]

\* one call of generateRecommendations: its arguments, the history it read,
\* where it failed (if it did) and the list it returned
CallRecord(r, failedAt, historyRead, list) ==
    [user |-> r.user, budgets |-> r.budgets, transactions |-> r.transactions,
     now |-> today, failedAt |-> failedAt,
     outcome |-> IF failedAt = "none" THEN "returned" ELSE "threw",
     historyRead |-> historyRead, list |-> list]

\* what the caller does with the outcome of generateRecommendations
CallerOutcome(r, call) ==
    IF FireAndForget(r) THEN last
    ELSE IF r.caller = "GET /budgets"
    THEN IF call.outcome = "returned"
         THEN [op |-> "GET /budgets", user |-> r.user, outcome |-> "rendered",
               smartRecommendations |-> call.list, call |-> call]
         ELSE [op |-> "GET /budgets", user |-> r.user,
               outcome |-> "redirect_dashboard_error",
               smartRecommendations |-> << >>, call |-> call]
    ELSE [op |-> "updateRecommendationsRealTime", user |-> r.user,
          outcome |-> IF call.outcome = "returned" THEN "true" ELSE "false",
          smartRecommendations |-> << >>, call |-> call]

\* the slot once the recompute is over: free, or left to the handler's tail
AfterRecompute(r) ==
    IF r.tail = NoTail THEN Idle
    ELSE [pc |-> "tail", caller |-> r.caller, user |-> r.user, tail |-> r.tail]

\* router.get('/') of the budgets routes, up to the call of generateRecommendations
GetBudgets(s, u, month) ==
    /\ req[s] = Idle
    /\ LET budgets == SortById({b \in budgetDocs :
                                   b.user = u /\ b.month = month /\ b.year = CurYear})
           allTransactions == {t \in txDocs : t.user = u}
       IN  IF Len(budgets) > 0
           THEN /\ req' = [req EXCEPT ![s] =
                              GenCall("GET /budgets", u, budgets, allTransactions,
                                      NoTail)]
                /\ last' = last
           ELSE /\ req' = req
                /\ last' = [op |-> "GET /budgets", user |-> u, outcome |-> "rendered",
                            smartRecommendations |-> << >>, call |-> NoCall]
    /\ UNCHANGED <<sessions, today, budgetDocs, monthlyDocs, txDocs, rlDocs, nextId, calls, pace, clock, userDocs, mailbox>>

\* updateRecommendationsRealTime(userId) is called and its result awaited
UpdateRecommendationsRealTime(s, u) ==
    /\ req[s] = Idle
    /\ req' = [req EXCEPT ![s] = UpdateCall("updateRecommendationsRealTime", u, NoTail)]
    /\ UNCHANGED <<sessions, today, budgetDocs, monthlyDocs, txDocs, rlDocs, nextId, last, calls, pace, clock, userDocs, mailbox>>

\* updateRecommendationsRealTime: Budget.find of the current month answers
UpdateFindBudgets(s) ==
    /\ req[s].pc = "update_findBudgets"
    /\ LET r == req[s]
           budgets == SortById({b \in budgetDocs :
                                   /\ b.user = r.user
                                   /\ b.month = today.month
                                   /\ b.year = today.year})
       IN  req' = [req EXCEPT ![s] =
                      [pc |-> "update_findTransactions", caller |-> r.caller,
                       user |-> r.user, budgets |-> budgets, tail |-> r.tail]]
    /\ UNCHANGED <<sessions, today, budgetDocs, monthlyDocs, txDocs, rlDocs, nextId, last, calls, pace, clock, userDocs, mailbox>>

\* updateRecommendationsRealTime: Transaction.find({ user }) answers and
\* generateRecommendations is called
UpdateFindTransactions(s) ==
    /\ req[s].pc = "update_findTransactions"
    /\ LET r == req[s]
           transactions == {t \in txDocs : t.user = r.user}
       IN  req' = [req EXCEPT ![s] =
                      GenCall(r.caller, r.user, r.budgets, transactions, r.tail)]
    /\ UNCHANGED <<sessions, today, budgetDocs, monthlyDocs, txDocs, rlDocs, nextId, last, calls, pace, clock, userDocs, mailbox>>

\* getOrCreateModel: BudgetRL.findOne({ userId }) answers
GenFindModel(s) ==
    /\ req[s].pc = "gen_findModel"
    /\ LET found == {d \in rlDocs : d.userId = req[s].user}
       IN  IF found # {}
           THEN req' = [req EXCEPT ![s] = GenComputed(req[s], SortById(found)[1])]
           ELSE req' = [req EXCEPT ![s].pc = "gen_createModel"]
    /\ UNCHANGED <<sessions, today, budgetDocs, monthlyDocs, txDocs, rlDocs, nextId, last, calls, pace, clock, userDocs, mailbox>>

\* getOrCreateModel: new BudgetRL({ userId }) is saved
GenCreateModel(s) ==
    /\ req[s].pc = "gen_createModel"
    /\ LET model == RlDoc(nextId.rl, req[s].user, << >>)
       IN  /\ rlDocs' = rlDocs \cup {model}
           /\ nextId' = [nextId EXCEPT !.rl = @ + 1]
           /\ req' = [req EXCEPT ![s] = GenComputed(req[s], model)]
    /\ UNCHANGED <<sessions, today, budgetDocs, monthlyDocs, txDocs, last, calls, pace, clock, userDocs, mailbox>>

\* getOrCreateModel: the save of the new record throws
GenCreateModelFails(s) ==
    /\ req[s].pc = "gen_createModel"
    /\ req' = [req EXCEPT ![s] = AfterRecompute(req[s])]
    /\ last' = CallerOutcome(req[s], CallRecord(req[s], "create", << >>, << >>))
    /\ UNCHANGED <<sessions, today, budgetDocs, monthlyDocs, txDocs, rlDocs, nextId, calls, pace, clock, userDocs, mailbox>>

\* await model.save() succeeds; return recommendations
GenSave(s) ==
    /\ req[s].pc = "gen_save"
    /\ LET r == req[s]
           call == CallRecord(r, "none", r.historyRead, r.recommendations)
       IN  /\ rlDocs' = {d \in rlDocs : d.id # r.model.id} \cup {r.model}
           /\ calls' = IF FireAndForget(r) THEN calls ELSE calls \cup {call}
           /\ last' = CallerOutcome(r, call)
    /\ req' = [req EXCEPT ![s] = AfterRecompute(req[s])]
    /\ UNCHANGED <<sessions, today, budgetDocs, monthlyDocs, txDocs, nextId, pace, clock, userDocs, mailbox>>

\* await model.save() throws: nothing catches it inside generateRecommendations
GenSaveFails(s) ==
    /\ req[s].pc = "gen_save"
    /\ last' = CallerOutcome(req[s],
                              CallRecord(req[s], "save", req[s].historyRead, << >>))
    /\ req' = [req EXCEPT ![s] = AfterRecompute(req[s])]
    /\ UNCHANGED <<sessions, today, budgetDocs, monthlyDocs, txDocs, rlDocs, nextId, calls, pace, clock, userDocs, mailbox>>

NextGen ==
    \/ \E u \in Users, m \in {PastMonth, CurMonth} : GetBudgets(GenSlot, u, m)
    \/ \E u \in Users : UpdateRecommendationsRealTime(GenSlot, u)
    \/ UpdateFindBudgets(GenSlot)
    \/ UpdateFindTransactions(GenSlot)
    \/ GenFindModel(GenSlot)
    \/ GenCreateModel(GenSlot)
    \/ GenCreateModelFails(GenSlot)
    \/ GenSave(GenSlot)
    \/ GenSaveFails(GenSlot)

SpecGen == InitGen /\ [][NextGen]_vars

----------------------------------------------------------------------------
(* GET /budgets answered in one piece, on several days of the month, while    *)
(* transactions are inserted, updated and deleted between the requests.       *)

ListMaxTxs == 2

\* the days of the month the requests are made on
ListDays == {1, 30}

\* the budgets document id may be
ListBudgetOptions(id) ==
    CASE id = 1 -> {BudgetDoc(1, "u1", "Food", a, CurMonth) : a \in {0, 3000}}
      [] id = 2 -> {BudgetDoc(2, "u1", "Rent", 1000, CurMonth)}
      [] OTHER -> {BudgetDoc(id, "u1", "Travel", 2000, PastMonth)}

\* the transactions document id may be; amount has no minimum in the schema
ListTxOptions(id) ==
    CASE id = 1 -> {TxDoc(1, "u1", "expense", "Food", a, CurMonth) : a \in {0, 1800}}
      [] OTHER -> {TxDoc(id, "u1", "income", "Food", 600, CurMonth),
                   TxDoc(id, "u1", "saving", "Food", 600, CurMonth),
                   TxDoc(id, "u1", "expense", "Misc", 600, CurMonth),
                   TxDoc(id, "u1", "expense", "Food", 600, PastMonth)}

InitList ==
    /\ \E d \in ListDays : today = [Now EXCEPT !.day = d]
    /\ budgetDocs \in DocChoices(UNION {ListBudgetOptions(i) : i \in 1..GenMaxBudgets})
    /\ txDocs = {}
    /\ monthlyDocs = {}
    /\ clock = 0
    /\ userDocs = {}
    /\ mailbox = {}
    /\ sessions = NoSessions
    /\ rlDocs = {}
    /\ nextId = [budget |-> GenMaxBudgets + 1, tx |-> 1, rl |-> 1, request |-> 1]
    /\ req = [s \in Slots |-> Idle]
    /\ last = NoLast
    /\ calls = {}
    /\ pace = NoPace

\* await newTransaction.save() of POST /transactions
ListInsertTransaction(t) ==
    /\ \A x \in txDocs : x.id # t.id
    /\ txDocs' = txDocs \cup {t}
    /\ UNCHANGED <<sessions, today, budgetDocs, monthlyDocs, rlDocs, nextId, req, last, calls, pace, clock, userDocs, mailbox>>

\* await transaction.save() of PUT /transactions/:id
ListUpdateTransaction(t) ==
    /\ \E x \in txDocs : x.id = t.id /\ x # t
    /\ txDocs' = {x \in txDocs : x.id # t.id} \cup {t}
    /\ UNCHANGED <<sessions, today, budgetDocs, monthlyDocs, rlDocs, nextId, req, last, calls, pace, clock, userDocs, mailbox>>

\* await Transaction.deleteOne({ _id }) of DELETE /transactions/:id
ListDeleteTransaction(id) ==
    /\ \E x \in txDocs : x.id = id
    /\ txDocs' = {x \in txDocs : x.id # id}
    /\ UNCHANGED <<sessions, today, budgetDocs, monthlyDocs, rlDocs, nextId, req, last, calls, pace, clock, userDocs, mailbox>>

\* router.get('/') of the budgets routes with every await answered at once;
\* failedAt names the save that rejects, if one does.  calls keeps the call
\* returned before this one.
ListGetBudgets(u, month, failedAt) ==
    LET budgets == SortById({b \in budgetDocs :
                                b.user = u /\ b.month = month /\ b.year = today.year})
        allTransactions == {t \in txDocs : t.user = u}
        r == GenCall("GET /budgets", u, budgets, allTransactions, NoTail)
        found == {d \in rlDocs : d.userId = u}
        model == IF found # {} THEN SortById(found)[1] ELSE RlDoc(nextId.rl, u, << >>)
        created == IF found # {} \/ failedAt = "create" THEN {} ELSE {model}
        computed == GenComputed(r, model)
        call == CASE failedAt = "create" -> CallRecord(r, "create", << >>, << >>)
                  [] failedAt = "save" ->
                        CallRecord(r, "save", computed.historyRead, << >>)
                  [] OTHER ->
                        CallRecord(r, "none", computed.historyRead,
                                   computed.recommendations)
    IN  /\ failedAt = "create" => found = {}
        /\ IF Len(budgets) = 0
           THEN /\ failedAt = "none"
                /\ last' = [op |-> "GET /budgets", user |-> u, outcome |-> "rendered",
                            smartRecommendations |-> << >>, call |-> NoCall]
                /\ UNCHANGED <<sessions, rlDocs, nextId, calls>>
           ELSE /\ last' = CallerOutcome(r, call)
                /\ rlDocs' = IF failedAt = "none"
                             THEN {d \in rlDocs : d.id # model.id} \cup {computed.model}
                             ELSE rlDocs \cup created
                /\ nextId' = [nextId EXCEPT !.rl = @ + Cardinality(created)]
                /\ calls' = IF last.call.outcome = "returned" THEN {last.call}
                            ELSE calls
        /\ UNCHANGED <<sessions, today, budgetDocs, monthlyDocs, txDocs, req, pace, clock, userDocs, mailbox>>

NextList ==
    \/ \E i \in 1..ListMaxTxs : \E t \in ListTxOptions(i) : ListInsertTransaction(t)
    \/ \E i \in 1..ListMaxTxs : \E t \in ListTxOptions(i) : ListUpdateTransaction(t)
    \/ \E i \in 1..ListMaxTxs : ListDeleteTransaction(i)
    \/ \E u \in Users, m \in {PastMonth, CurMonth},
          f \in {"none", "create", "save"} : ListGetBudgets(u, m, f)

SpecList == InitList /\ [][NextList]_vars

----------------------------------------------------------------------------
(* The budget and transaction routes.  Every handler is cut at its awaits,   *)
(* handlers of different requests interleave, and a recompute started        *)
(* without await runs on in the slot of the request that started it.  The    *)
(* database starts empty; database operations fail only when the stored data *)
(* makes them fail.                                                          *)

Categories == {"Food", "Rent"}

BudgetAmounts == {400, 800, 1200}

MonthlyAmounts == {1000}

TxTypes == {"income", "expense"}

TxAmounts == {1000}

TxCategories == {"Food"}

Init ==
    /\ today = Now
    /\ budgetDocs = {}
    /\ monthlyDocs = {}
    /\ clock = 0
    /\ userDocs = {}
    /\ mailbox = {}
    /\ sessions = NoSessions
    /\ txDocs = {}
    /\ rlDocs = {}
    /\ nextId = [budget |-> 1, tx |-> 1, rl |-> 1, request |-> 1]
    /\ req = [s \in Slots |-> Idle]
    /\ last = NoLast
    /\ calls = {}
    /\ pace = NoPace

\* a request is taken up by the lowest free slot, MaxRequests requests in all
Accepts(s) ==
    /\ req[s] = Idle
    /\ \A t \in Slots : t < s => req[t] # Idle
    /\ nextId.request <= MaxRequests

\* the fields of the unique index of the Budget collection
Key(b) == << b.user, b.category, b.month, b.year >>

UniqueIndexAllowsAnything(docs, doc) == TRUE

\* the unique index lets doc in when no stored document has its key
UniqueIndexAllows(docs, doc) == \A b \in docs : Key(b) # Key(doc)

\* the stored budgets of one key, as (id, amount)
KeyRecords(u, category, month) ==
    {[id |-> b.id, amount |-> b.amount] :
        b \in {x \in budgetDocs : Key(x) = << u, category, month, CurYear >>}}

\* how a request ended: the flash message class, whether stored documents were
\* written or removed, and the user the recompute was started for
Response(op, u, outcome, changed, recompute) ==
    [op |-> op, user |-> u, outcome |-> outcome, changed |-> changed,
     recompute |-> recompute, call |-> NoCall]

\* expenses of one category in one month: the Transaction.find of the alert checks
MonthExpenses(u, category, month) ==
    {t \in txDocs : /\ t.user = u
                    /\ t.type = "expense"
                    /\ t.category = category
                    /\ t.month = month
                    /\ t.year = CurYear}

\* totalSpent >= amount * 0.9
NearLimit(totalSpent, amount) == totalSpent * 10 >= amount * 9

\* router.post('/monthly'): validation, then the income of the month is read
PostMonthlyBudget(s, u, amount, month) ==
    /\ Accepts(s)
    /\ LET totalIncome == SumAmount({t \in txDocs : /\ t.user = u
                                                    /\ t.type = "income"
                                                    /\ t.month = month
                                                    /\ t.year = CurYear})
       IN  IF amount < 0 \/ amount > totalIncome
           THEN /\ req' = req
                /\ last' = Response("POST /budgets/monthly", u, "error", FALSE, "none")
           ELSE /\ req' = [req EXCEPT ![s] =
                              [pc |-> "monthly_upsert", user |-> u,
                               amount |-> amount, month |-> month]]
                /\ last' = last
    /\ nextId' = [nextId EXCEPT !.request = @ + 1]
    /\ UNCHANGED <<sessions, today, budgetDocs, monthlyDocs, txDocs, rlDocs, calls, pace, clock, userDocs, mailbox>>

\* MonthlyBudget.findOneAndUpdate(..., { upsert: true })
MonthlyUpsert(s) ==
    /\ req[s].pc = "monthly_upsert"
    /\ LET r == req[s]
       IN  /\ monthlyDocs' =
                {m \in monthlyDocs : ~(m.user = r.user /\ m.month = r.month
                                        /\ m.year = CurYear)}
                \cup {[user |-> r.user, month |-> r.month, year |-> CurYear,
                       amount |-> r.amount]}
           /\ last' = Response("POST /budgets/monthly", r.user, "success", TRUE, "none")
    /\ req' = [req EXCEPT ![s] = Idle]
    /\ UNCHANGED <<sessions, today, budgetDocs, txDocs, rlDocs, nextId, calls, pace, clock, userDocs, mailbox>>

\* the response of POST /budgets with what it asked for and the stored budgets
\* of its key before and after its write (or at the rejection)
PostBudgetResponse(r, outcome, changed, recompute, keyBefore, keyAfter) ==
    [op |-> "POST /budgets", user |-> r.user, outcome |-> outcome,
     changed |-> changed, recompute |-> recompute, call |-> NoCall,
     category |-> r.category, amount |-> r.amount, month |-> r.month,
     keyBefore |-> keyBefore, keyAfter |-> keyAfter]

\* router.post('/'): validation, then MonthlyBudget.findOne answers
PostBudget(s, u, category, amount, month) ==
    /\ Accepts(s)
    /\ nextId.budget <= MaxBudgetDocs
    /\ LET r == [pc |-> "postBudget_find", user |-> u, category |-> category,
                 amount |-> amount, month |-> month]
           monthlyBudget == {m \in monthlyDocs :
                                m.user = u /\ m.month = month /\ m.year = CurYear}
           stored == KeyRecords(u, category, month)
       IN  IF amount <= 0 \/ monthlyBudget = {}
              \/ (\E m \in monthlyBudget : m.amount = 0)
           THEN /\ req' = req
                /\ last' = PostBudgetResponse(r, "error", FALSE, "none", stored, stored)
           ELSE /\ req' = [req EXCEPT ![s] =
                              r @@ [monthlyAmount |->
                                       (CHOOSE m \in monthlyBudget : TRUE).amount]]
                /\ last' = last
    /\ nextId' = [nextId EXCEPT !.request = @ + 1]
    /\ UNCHANGED <<sessions, today, budgetDocs, monthlyDocs, txDocs, rlDocs, calls, pace, clock, userDocs, mailbox>>

\* Budget.find of the period answers; the check against the monthly budget
PostBudgetFind(s) ==
    /\ req[s].pc = "postBudget_find"
    /\ LET r == req[s]
           categoryBudgets == {b \in budgetDocs :
                                  b.user = r.user /\ b.month = r.month /\ b.year = CurYear}
           existing == {b \in categoryBudgets : b.category = r.category}
           currentCategoryTotal ==
               SumAmount({b \in categoryBudgets : b.category # r.category})
           stored == KeyRecords(r.user, r.category, r.month)
       IN  IF currentCategoryTotal + r.amount > r.monthlyAmount
           THEN /\ req' = [req EXCEPT ![s] = Idle]
                /\ last' = PostBudgetResponse(r, "error", FALSE, "none", stored, stored)
           ELSE /\ req' = [req EXCEPT ![s] =
                              [pc |-> "postBudget_write",
                               existingBudget |->
                                   IF existing = {} THEN 0
                                   ELSE SortById(existing)[1].id] @@ r]
                /\ last' = last
    /\ UNCHANGED <<sessions, today, budgetDocs, monthlyDocs, txDocs, rlDocs, nextId, calls, pace, clock, userDocs, mailbox>>

\* existingBudget.amount = parsedAmount; await existingBudget.save()
PostBudgetSave(s) ==
    /\ req[s].pc = "postBudget_write"
    /\ req[s].existingBudget # 0
    /\ LET r == req[s]
           stored == KeyRecords(r.user, r.category, r.month)
       IN  IF \E b \in budgetDocs : b.id = r.existingBudget
           THEN /\ budgetDocs' =
                     {IF b.id = r.existingBudget THEN [b EXCEPT !.amount = r.amount]
                      ELSE b : b \in budgetDocs}
                /\ req' = [req EXCEPT ![s] =
                              [pc |-> "postBudget_alert", keyBefore |-> stored,
                               keyAfter |-> {IF k.id = r.existingBudget
                                             THEN [k EXCEPT !.amount = r.amount]
                                             ELSE k : k \in stored}] @@ r]
                /\ last' = last
           ELSE \* the document is gone: save() rejects, the catch answers
                /\ budgetDocs' = budgetDocs
                /\ req' = [req EXCEPT ![s] = Idle]
                /\ last' = PostBudgetResponse(r, "error", FALSE, "none", stored, stored)
    /\ UNCHANGED <<sessions, today, monthlyDocs, txDocs, rlDocs, nextId, calls, pace, clock, userDocs, mailbox>>

\* await Budget.create({ user, category, amount, month, year })
PostBudgetCreate(s) ==
    /\ req[s].pc = "postBudget_write"
    /\ req[s].existingBudget = 0
    /\ LET r == req[s]
           doc == BudgetDoc(nextId.budget, r.user, r.category, r.amount, r.month)
           stored == KeyRecords(r.user, r.category, r.month)
       IN  IF UniqueIndexAllows(budgetDocs, doc)
           THEN /\ budgetDocs' = budgetDocs \cup {doc}
                /\ nextId' = [nextId EXCEPT !.budget = @ + 1]
                /\ req' = [req EXCEPT ![s] =
                              [pc |-> "postBudget_alert", keyBefore |-> stored,
                               keyAfter |-> stored \cup
                                   {[id |-> doc.id, amount |-> doc.amount]}] @@ r]
                /\ last' = last
           ELSE \* duplicate key error: the catch answers
                /\ budgetDocs' = budgetDocs
                /\ nextId' = nextId
                /\ req' = [req EXCEPT ![s] = Idle]
                /\ last' = PostBudgetResponse(r, "error", FALSE, "none", stored, stored)
    /\ UNCHANGED <<sessions, today, monthlyDocs, txDocs, rlDocs, calls, pace, clock, userDocs, mailbox>>

\* Transaction.find of the alert check answers; the alert email; the recompute
\* is started; res.redirect
PostBudgetAlert(s) ==
    /\ req[s].pc = "postBudget_alert"
    /\ LET r == req[s]
           totalSpent == SumAmount(MonthExpenses(r.user, r.category, r.month))
       IN  /\ req' = [req EXCEPT ![s] = UpdateCall("POST /budgets", r.user, NoTail)]
           /\ last' = PostBudgetResponse(r, "success", TRUE, r.user,
                                          r.keyBefore, r.keyAfter)
                        @@ [alert |-> r.amount > 0 /\ NearLimit(totalSpent, r.amount)]
    /\ UNCHANGED <<sessions, today, budgetDocs, monthlyDocs, txDocs, rlDocs, nextId, calls, pace, clock, userDocs, mailbox>>

\* router.put('/:id') of the budgets: Budget.findById answers; owner and amount
\* checks
PutBudget(s, u, id, amount) ==
    /\ Accepts(s)
    /\ LET found == {b \in budgetDocs : b.id = id}
       IN  IF found = {} \/ (\E b \in found : b.user # u) \/ amount <= 0
           THEN /\ req' = req
                /\ last' = Response("PUT /budgets/:id", u, "error", FALSE, "none")
           ELSE /\ req' = [req EXCEPT ![s] =
                              LET b == CHOOSE x \in found : TRUE
                              IN  [pc |-> "putBudget_monthly", user |-> u, id |-> id,
                                   amount |-> amount, category |-> b.category,
                                   month |-> b.month, year |-> b.year]]
                /\ last' = last
    /\ nextId' = [nextId EXCEPT !.request = @ + 1]
    /\ UNCHANGED <<sessions, today, budgetDocs, monthlyDocs, txDocs, rlDocs, calls, pace, clock, userDocs, mailbox>>

\* MonthlyBudget.findOne of the budget's period answers
PutBudgetMonthly(s) ==
    /\ req[s].pc = "putBudget_monthly"
    /\ LET r == req[s]
           monthlyBudget == {m \in monthlyDocs :
                                m.user = r.user /\ m.month = r.month /\ m.year = r.year}
       IN  IF monthlyBudget = {}
           THEN /\ req' = [req EXCEPT ![s] = Idle]
                /\ last' = Response("PUT /budgets/:id", r.user, "error", FALSE, "none")
           ELSE /\ req' = [req EXCEPT ![s] =
                              [pc |-> "putBudget_find",
                               monthlyAmount |->
                                   (CHOOSE m \in monthlyBudget : TRUE).amount] @@ r]
                /\ last' = last
    /\ UNCHANGED <<sessions, today, budgetDocs, monthlyDocs, txDocs, rlDocs, nextId, calls, pace, clock, userDocs, mailbox>>

\* Budget.find of the period answers; the check against the monthly budget
PutBudgetFind(s) ==
    /\ req[s].pc = "putBudget_find"
    /\ LET r == req[s]
           categoryBudgets == {b \in budgetDocs :
                                  b.user = r.user /\ b.month = r.month /\ b.year = r.year}
           otherCategoriesTotal ==
               SumAmount({b \in categoryBudgets : b.category # r.category})
       IN  IF otherCategoriesTotal + r.amount > r.monthlyAmount
           THEN /\ req' = [req EXCEPT ![s] = Idle]
                /\ last' = Response("PUT /budgets/:id", r.user, "error", FALSE, "none")
           ELSE /\ req' = [req EXCEPT ![s].pc = "putBudget_save"]
                /\ last' = last
    /\ UNCHANGED <<sessions, today, budgetDocs, monthlyDocs, txDocs, rlDocs, nextId, calls, pace, clock, userDocs, mailbox>>

\* budgetToUpdate.amount = parsedAmount; await budgetToUpdate.save()
PutBudgetSave(s) ==
    /\ req[s].pc = "putBudget_save"
    /\ LET r == req[s]
       IN  IF \E b \in budgetDocs : b.id = r.id
           THEN /\ budgetDocs' =
                     {IF b.id = r.id THEN [b EXCEPT !.amount = r.amount] ELSE b :
                         b \in budgetDocs}
                /\ req' = [req EXCEPT ![s].pc = "putBudget_alert"]
                /\ last' = last
           ELSE \* the document is gone: save() rejects, the catch answers
                /\ budgetDocs' = budgetDocs
                /\ req' = [req EXCEPT ![s] = Idle]
                /\ last' = Response("PUT /budgets/:id", r.user, "error", FALSE, "none")
    /\ UNCHANGED <<sessions, today, monthlyDocs, txDocs, rlDocs, nextId, calls, pace, clock, userDocs, mailbox>>

\* Transaction.find of the alert check answers; the alert email; the recompute
\* is started; res.redirect
PutBudgetAlert(s) ==
    /\ req[s].pc = "putBudget_alert"
    /\ LET r == req[s]
           totalSpent == SumAmount(MonthExpenses(r.user, r.category, r.month))
       IN  /\ req' = [req EXCEPT ![s] = UpdateCall("PUT /budgets/:id", r.user, NoTail)]
           /\ last' = Response("PUT /budgets/:id", r.user, "success", TRUE, r.user)
                        @@ [alert |-> r.amount > 0 /\ NearLimit(totalSpent, r.amount)]
    /\ UNCHANGED <<sessions, today, budgetDocs, monthlyDocs, txDocs, rlDocs, nextId, calls, pace, clock, userDocs, mailbox>>

\* router.delete('/all-by-month') of the budgets: Budget.deleteMany, res.redirect
DeleteAllBudgetsByMonth(s, u, month) ==
    /\ Accepts(s)
    /\ LET matched == {b \in budgetDocs :
                          b.user = u /\ b.month = month /\ b.year = CurYear}
       IN  /\ budgetDocs' = budgetDocs \ matched
           /\ last' = Response("DELETE /budgets/all-by-month", u, "success",
                               matched # {}, "none")
    /\ nextId' = [nextId EXCEPT !.request = @ + 1]
    /\ UNCHANGED <<sessions, today, monthlyDocs, txDocs, rlDocs, req, calls, pace, clock, userDocs, mailbox>>

\* router.delete('/:id') of the budgets: Budget.findById answers; owner check
DeleteBudget(s, u, id) ==
    /\ Accepts(s)
    /\ LET found == {b \in budgetDocs : b.id = id}
       IN  IF found = {} \/ (\E b \in found : b.user # u)
           THEN /\ req' = req
                /\ last' = Response("DELETE /budgets/:id", u, "error", FALSE, "none")
           ELSE /\ req' = [req EXCEPT ![s] =
                              [pc |-> "deleteBudget_delete", user |-> u, id |-> id]]
                /\ last' = last
    /\ nextId' = [nextId EXCEPT !.request = @ + 1]
    /\ UNCHANGED <<sessions, today, budgetDocs, monthlyDocs, txDocs, rlDocs, calls, pace, clock, userDocs, mailbox>>

\* Budget.findByIdAndDelete; the recompute is started; res.redirect
DeleteBudgetDelete(s) ==
    /\ req[s].pc = "deleteBudget_delete"
    /\ LET r == req[s]
       IN  /\ budgetDocs' = {b \in budgetDocs : b.id # r.id}
           /\ req' = [req EXCEPT ![s] = UpdateCall("DELETE /budgets/:id", r.user, NoTail)]
           /\ last' = Response("DELETE /budgets/:id", r.user, "success",
                               \E b \in budgetDocs : b.id = r.id, r.user)
    /\ UNCHANGED <<sessions, today, monthlyDocs, txDocs, rlDocs, nextId, calls, pace, clock, userDocs, mailbox>>

\* router.post('/') of the transactions with the category given and no
\* recurrence: newTransaction.save(); the recompute is started; an expense
\* goes on to the budget alert check, anything else is answered
PostTransaction(s, u, type, category, amount) ==
    /\ Accepts(s)
    /\ nextId.tx <= MaxTxDocs
    /\ txDocs' = txDocs \cup {TxDoc(nextId.tx, u, type, category, amount, today.month)}
    /\ nextId' = [nextId EXCEPT !.tx = @ + 1, !.request = @ + 1]
    /\ IF type = "expense"
       THEN /\ req' = [req EXCEPT ![s] =
                          UpdateCall("POST /transactions", u,
                                     [pc |-> "alert_findBudget", category |-> category])]
            /\ last' = last
       ELSE /\ req' = [req EXCEPT ![s] = UpdateCall("POST /transactions", u, NoTail)]
            /\ last' = Response("POST /transactions", u, "success", TRUE, u)
    /\ UNCHANGED <<sessions, today, budgetDocs, monthlyDocs, rlDocs, calls, pace, clock, userDocs, mailbox>>

\* the slot once the handler's tail has answered
AfterTail(r) == IF r.pc = "tail" THEN Idle ELSE [r EXCEPT !.tail = NoTail]

HasTail(r, pc) == "tail" \in DOMAIN r /\ r.tail.pc = pc

\* POST /transactions of an expense: Budget.findOne of the category answers
AlertFindBudget(s) ==
    /\ HasTail(req[s], "alert_findBudget")
    /\ LET r == req[s]
           budget == {b \in budgetDocs : /\ b.user = r.user
                                         /\ b.category = r.tail.category
                                         /\ b.month = today.month
                                         /\ b.year = today.year}
       IN  IF budget = {}
           THEN /\ req' = [req EXCEPT ![s] = AfterTail(r)]
                /\ last' = Response("POST /transactions", r.user, "success", TRUE, r.user)
                             @@ [alert |-> FALSE]
           ELSE /\ req' = [req EXCEPT ![s].tail =
                              [pc |-> "alert_findTransactions",
                               category |-> r.tail.category,
                               budgetAmount |-> SortById(budget)[1].amount]]
                /\ last' = last
    /\ UNCHANGED <<sessions, today, budgetDocs, monthlyDocs, txDocs, rlDocs, nextId, calls, pace, clock, userDocs, mailbox>>

\* POST /transactions of an expense: Transaction.find answers; the alert;
\* res.redirect
AlertFindTransactions(s) ==
    /\ HasTail(req[s], "alert_findTransactions")
    /\ LET r == req[s]
           totalSpent == SumAmount(MonthExpenses(r.user, r.tail.category, today.month))
       IN  /\ req' = [req EXCEPT ![s] = AfterTail(r)]
           /\ last' = Response("POST /transactions", r.user, "success", TRUE, r.user)
                        @@ [alert |-> NearLimit(totalSpent, r.tail.budgetAmount)]
    /\ UNCHANGED <<sessions, today, budgetDocs, monthlyDocs, txDocs, rlDocs, nextId, calls, pace, clock, userDocs, mailbox>>

\* an update that looks the transaction up by its id alone
PutTransactionOfAnyUser(s, u, id, type, category, amount) ==
    /\ Accepts(s)
    /\ IF \E t \in txDocs : t.id = id
       THEN /\ req' = [req EXCEPT ![s] =
                          [pc |-> "putTransaction_save", user |-> u, id |-> id,
                           type |-> type, category |-> category, amount |-> amount]]
            /\ last' = last
       ELSE /\ req' = req
            /\ last' = Response("PUT /transactions/:id", u, "error", FALSE, "none")
    /\ nextId' = [nextId EXCEPT !.request = @ + 1]
    /\ UNCHANGED <<sessions, today, budgetDocs, monthlyDocs, txDocs, rlDocs, calls, pace, clock, userDocs, mailbox>>

\* router.put('/:id') of the transactions with no recurrence:
\* Transaction.findOne({ _id, user }) answers
PutTransaction(s, u, id, type, category, amount) ==
    /\ Accepts(s)
    /\ IF \E t \in txDocs : t.id = id /\ t.user = u
       THEN /\ req' = [req EXCEPT ![s] =
                          [pc |-> "putTransaction_save", user |-> u, id |-> id,
                           type |-> type, category |-> category, amount |-> amount]]
            /\ last' = last
       ELSE /\ req' = req
            /\ last' = Response("PUT /transactions/:id", u, "error", FALSE, "none")
    /\ nextId' = [nextId EXCEPT !.request = @ + 1]
    /\ UNCHANGED <<sessions, today, budgetDocs, monthlyDocs, txDocs, rlDocs, calls, pace, clock, userDocs, mailbox>>

\* the first await transaction.save()
PutTransactionSave(s) ==
    /\ req[s].pc = "putTransaction_save"
    /\ LET r == req[s]
       IN  IF \E t \in txDocs : t.id = r.id
           THEN /\ txDocs' =
                     {IF t.id = r.id
                      THEN [t EXCEPT !.type = r.type, !.category = r.category,
                                     !.amount = r.amount]
                      ELSE t : t \in txDocs}
                /\ req' = [req EXCEPT ![s].pc = "putTransaction_saveAgain"]
                /\ last' = last
           ELSE \* the document is gone: save() rejects, the catch answers
                /\ txDocs' = txDocs
                /\ req' = [req EXCEPT ![s] = Idle]
                /\ last' = Response("PUT /transactions/:id", r.user, "error", FALSE,
                                    "none")
    /\ UNCHANGED <<sessions, today, budgetDocs, monthlyDocs, rlDocs, nextId, calls, pace, clock, userDocs, mailbox>>

\* the second await transaction.save(); the recompute is started; res.redirect
PutTransactionSaveAgain(s) ==
    /\ req[s].pc = "putTransaction_saveAgain"
    /\ LET r == req[s]
       IN  IF \E t \in txDocs : t.id = r.id
           THEN /\ req' = [req EXCEPT ![s] =
                              UpdateCall("PUT /transactions/:id", r.user, NoTail)]
                /\ last' = Response("PUT /transactions/:id", r.user, "success", TRUE,
                                    r.user)
           ELSE \* the document is gone: save() rejects, the catch answers
                /\ req' = [req EXCEPT ![s] = Idle]
                /\ last' = Response("PUT /transactions/:id", r.user, "error", TRUE,
                                    "none")
    /\ UNCHANGED <<sessions, today, budgetDocs, monthlyDocs, txDocs, rlDocs, nextId, calls, pace, clock, userDocs, mailbox>>

\* router.delete('/all-by-month') of the transactions: Transaction.deleteMany,
\* res.redirect
DeleteAllTransactionsByMonth(s, u, month) ==
    /\ Accepts(s)
    /\ LET matched == {t \in txDocs :
                          t.user = u /\ t.month = month /\ t.year = CurYear}
       IN  /\ txDocs' = txDocs \ matched
           /\ last' = Response("DELETE /transactions/all-by-month", u, "success",
                               matched # {}, "none")
    /\ nextId' = [nextId EXCEPT !.request = @ + 1]
    /\ UNCHANGED <<sessions, today, budgetDocs, monthlyDocs, rlDocs, req, calls, pace, clock, userDocs, mailbox>>

\* router.delete('/:id') of the transactions: Transaction.findOne({ _id, user })
\* answers
DeleteTransaction(s, u, id) ==
    /\ Accepts(s)
    /\ IF \E t \in txDocs : t.id = id /\ t.user = u
       THEN /\ req' = [req EXCEPT ![s] =
                          [pc |-> "deleteTransaction_delete", user |-> u, id |-> id]]
            /\ last' = last
       ELSE /\ req' = req
            /\ last' = Response("DELETE /transactions/:id", u, "error", FALSE, "none")
    /\ nextId' = [nextId EXCEPT !.request = @ + 1]
    /\ UNCHANGED <<sessions, today, budgetDocs, monthlyDocs, txDocs, rlDocs, calls, pace, clock, userDocs, mailbox>>

\* Transaction.deleteOne; the recompute is started; res.redirect
DeleteTransactionDelete(s) ==
    /\ req[s].pc = "deleteTransaction_delete"
    /\ LET r == req[s]
       IN  /\ txDocs' = {t \in txDocs : t.id # r.id}
           /\ req' = [req EXCEPT ![s] =
                         UpdateCall("DELETE /transactions/:id", r.user, NoTail)]
           /\ last' = Response("DELETE /transactions/:id", r.user, "success",
                               \E t \in txDocs : t.id = r.id, r.user)
    /\ UNCHANGED <<sessions, today, budgetDocs, monthlyDocs, rlDocs, nextId, calls, pace, clock, userDocs, mailbox>>

BudgetIds == 1..MaxBudgetDocs

TxIds == 1..MaxTxDocs

Next ==
    \/ \E s \in Slots, u \in Users, a \in MonthlyAmounts :
          PostMonthlyBudget(s, u, a, CurMonth)
    \/ \E s \in Slots : MonthlyUpsert(s)
    \/ \E s \in Slots, u \in Users, c \in Categories, a \in BudgetAmounts :
          PostBudget(s, u, c, a, CurMonth)
    \/ \E s \in Slots : PostBudgetFind(s)
    \/ \E s \in Slots : PostBudgetSave(s)
    \/ \E s \in Slots : PostBudgetCreate(s)
    \/ \E s \in Slots : PostBudgetAlert(s)
    \/ \E s \in Slots, u \in Users, id \in BudgetIds, a \in BudgetAmounts :
          PutBudget(s, u, id, a)
    \/ \E s \in Slots : PutBudgetMonthly(s)
    \/ \E s \in Slots : PutBudgetFind(s)
    \/ \E s \in Slots : PutBudgetSave(s)
    \/ \E s \in Slots : PutBudgetAlert(s)
    \/ \E s \in Slots, u \in Users : DeleteAllBudgetsByMonth(s, u, CurMonth)
    \/ \E s \in Slots, u \in Users, id \in BudgetIds : DeleteBudget(s, u, id)
    \/ \E s \in Slots : DeleteBudgetDelete(s)
    \/ \E s \in Slots, u \in Users, ty \in TxTypes, c \in TxCategories, a \in TxAmounts :
          PostTransaction(s, u, ty, c, a)
    \/ \E s \in Slots : AlertFindBudget(s)
    \/ \E s \in Slots : AlertFindTransactions(s)
    \/ \E s \in Slots, u \in Users, id \in TxIds, ty \in TxTypes,
          c \in TxCategories, a \in TxAmounts : PutTransaction(s, u, id, ty, c, a)
    \/ \E s \in Slots : PutTransactionSave(s)
    \/ \E s \in Slots : PutTransactionSaveAgain(s)
    \/ \E s \in Slots, u \in Users : DeleteAllTransactionsByMonth(s, u, CurMonth)
    \/ \E s \in Slots, u \in Users, id \in TxIds : DeleteTransaction(s, u, id)
    \/ \E s \in Slots : DeleteTransactionDelete(s)
    \/ \E s \in Slots : UpdateFindBudgets(s)
    \/ \E s \in Slots : UpdateFindTransactions(s)
    \/ \E s \in Slots : GenFindModel(s)
    \/ \E s \in Slots : GenCreateModel(s)
    \/ \E s \in Slots : GenSave(s)

Spec == Init /\ [][Next]_vars

----------------------------------------------------------------------------
(* The account routes: registration, e-mail verification, forgotten and      *)
(* reset passwords.  Every handler is cut at its awaits and the handlers of  *)
(* different requests interleave.  Form input is well-formed.                *)

\* minutes the clock advances in one step, and the last minute it reaches
ClockStep == 5

MaxClock == 15

\* Date.now() + 10 * 60 * 1000, in minutes
TokenLifetime == 10

Emails == {"a@x"}

Passwords == {"p1", "p2"}

\* crypto.createHash("sha256").update(token).digest("hex")
Sha256(token) == [sha256 |-> token]

\* bcrypt.hash(password, salt) of the pre-save hook
Bcrypt(password) == [bcrypt |-> password]

InitAuth ==
    /\ today = Now
    /\ budgetDocs = {}
    /\ monthlyDocs = {}
    /\ clock = 0
    /\ userDocs = {}
    /\ mailbox = {}
    /\ sessions = NoSessions
    /\ txDocs = {}
    /\ rlDocs = {}
    /\ nextId = [user |-> 1, token |-> 1, request |-> 1]
    /\ req = [s \in Slots |-> Idle]
    /\ last = NoLast
    /\ calls = {}
    /\ pace = NoPace

\* how an account request ended
AuthResponse(op, outcome) == [op |-> op, outcome |-> outcome, call |-> NoCall]

\* time passes
Tick ==
    /\ clock + ClockStep <= MaxClock
    /\ clock' = clock + ClockStep
    /\ UNCHANGED <<sessions, today, budgetDocs, monthlyDocs, txDocs, rlDocs, nextId, req, last, calls, pace,
                   userDocs, mailbox>>

\* router.post("/register"), up to await User.findOne({ email })
PostRegister(s, email, password) ==
    /\ Accepts(s)
    /\ req' = [req EXCEPT ![s] =
                  [pc |-> "register_find", email |-> email, password |-> password]]
    /\ nextId' = [nextId EXCEPT !.request = @ + 1]
    /\ UNCHANGED <<sessions, today, budgetDocs, monthlyDocs, txDocs, rlDocs, last, calls, pace,
                   clock, userDocs, mailbox>>

\* findOne answers; new User(...); user.generateEmailVerificationToken();
\* up to await user.save()
RegisterFind(s) ==
    /\ req[s].pc = "register_find"
    /\ IF \E u \in userDocs : u.email = req[s].email
       THEN /\ req' = [req EXCEPT ![s] = Idle]
            /\ last' = AuthResponse("POST /users/register", "already_registered")
            /\ nextId' = nextId
       ELSE /\ req' = [req EXCEPT ![s] =
                          [pc |-> "register_save", token |-> nextId.token,
                           user |-> [id |-> nextId.user, email |-> req[s].email,
                                     password |-> req[s].password,
                                     isVerified |-> FALSE,
                                     emailVerificationToken |-> Sha256(nextId.token),
                                     emailVerificationExpires |-> clock + TokenLifetime,
                                     passwordResetToken |-> JSUndefined,
                                     passwordResetExpires |-> JSUndefined]]]
            /\ last' = last
            /\ nextId' = [nextId EXCEPT !.user = @ + 1, !.token = @ + 1]
    /\ UNCHANGED <<sessions, today, budgetDocs, monthlyDocs, txDocs, rlDocs, calls, pace,
                   clock, userDocs, mailbox>>

\* user.save(): the pre-save hook hashes the password, the document is
\* inserted unless the unique index on email refuses it; up to
\* await sendVerificationEmail(...)
RegisterSave(s) ==
    /\ req[s].pc = "register_save"
    /\ IF \E u \in userDocs : u.email = req[s].user.email
       THEN /\ req' = [req EXCEPT ![s] = Idle]
            /\ last' = AuthResponse("POST /users/register", "server_error")
            /\ userDocs' = userDocs
       ELSE /\ req' = [req EXCEPT ![s] =
                          [pc |-> "register_send", token |-> req[s].token]]
            /\ last' = last
            /\ userDocs' = userDocs \cup
                  {[req[s].user EXCEPT !.password = Bcrypt(@)]}
    /\ UNCHANGED <<sessions, today, budgetDocs, monthlyDocs, txDocs, rlDocs, nextId, calls, pace,
                   clock, mailbox>>

\* the e-mail with the verification link is sent, or sending it fails
RegisterSend(s, sent) ==
    /\ req[s].pc = "register_send"
    /\ req' = [req EXCEPT ![s] = Idle]
    /\ mailbox' = IF sent THEN mailbox \cup {[kind |-> "verify", token |-> req[s].token]}
                  ELSE mailbox
    /\ last' = AuthResponse("POST /users/register",
                            IF sent THEN "verification_sent" ELSE "server_error")
    /\ UNCHANGED <<sessions, today, budgetDocs, monthlyDocs, txDocs, rlDocs, nextId, calls, pace,
                   clock, userDocs>>

\* router.get("/verifyemail/:token"), up to await User.findOne({...})
GetVerifyEmail(s, token) ==
    /\ Accepts(s)
    /\ req' = [req EXCEPT ![s] = [pc |-> "verify_find", token |-> token]]
    /\ nextId' = [nextId EXCEPT !.request = @ + 1]
    /\ UNCHANGED <<sessions, today, budgetDocs, monthlyDocs, txDocs, rlDocs, last, calls, pace,
                   clock, userDocs, mailbox>>

\* findOne({ emailVerificationToken: hashedToken,
\*           emailVerificationExpires: { $gt: Date.now() } }) answers
VerifyFind(s) ==
    /\ req[s].pc = "verify_find"
    /\ LET found == {u \in userDocs :
                        /\ u.emailVerificationToken = Sha256(req[s].token)
                        /\ u.emailVerificationExpires > clock}
       IN  IF found = {}
           THEN /\ req' = [req EXCEPT ![s] = Idle]
                /\ last' = AuthResponse("GET /users/verifyemail", "invalid_or_expired")
           ELSE /\ req' = [req EXCEPT ![s] =
                              [pc |-> "verify_save", token |-> req[s].token,
                               user |-> SortById(found)[1].id, checkedAt |-> clock]]
                /\ last' = last
    /\ UNCHANGED <<sessions, today, budgetDocs, monthlyDocs, txDocs, rlDocs, nextId, calls, pace,
                   clock, userDocs, mailbox>>

\* user.isVerified = true; both token fields = undefined; await user.save()
VerifySave(s) ==
    /\ req[s].pc = "verify_save"
    /\ userDocs' = {IF u.id = req[s].user
                    THEN [u EXCEPT !.isVerified = TRUE,
                                   !.emailVerificationToken = JSUndefined,
                                   !.emailVerificationExpires = JSUndefined]
                    ELSE u : u \in userDocs}
    /\ req' = [req EXCEPT ![s] = Idle]
    /\ last' = AuthResponse("GET /users/verifyemail", "verified")
    /\ UNCHANGED <<sessions, today, budgetDocs, monthlyDocs, txDocs, rlDocs, nextId, calls, pace,
                   clock, mailbox>>

\* router.post("/forgotpassword"), up to await User.findOne({ email })
PostForgotPassword(s, email) ==
    /\ Accepts(s)
    /\ req' = [req EXCEPT ![s] = [pc |-> "forgot_find", email |-> email]]
    /\ nextId' = [nextId EXCEPT !.request = @ + 1]
    /\ UNCHANGED <<sessions, today, budgetDocs, monthlyDocs, txDocs, rlDocs, last, calls, pace,
                   clock, userDocs, mailbox>>

\* findOne answers; user.generatePasswordResetToken(); up to await user.save()
ForgotFind(s) ==
    /\ req[s].pc = "forgot_find"
    /\ LET found == {u \in userDocs : u.email = req[s].email}
       IN  IF found = {}
           THEN /\ req' = [req EXCEPT ![s] = Idle]
                /\ last' = AuthResponse("POST /users/forgotpassword", "no_account")
                /\ nextId' = nextId
           ELSE /\ req' = [req EXCEPT ![s] =
                              [pc |-> "forgot_save", token |-> nextId.token,
                               user |-> SortById(found)[1].id,
                               expires |-> clock + TokenLifetime]]
                /\ last' = last
                /\ nextId' = [nextId EXCEPT !.token = @ + 1]
    /\ UNCHANGED <<sessions, today, budgetDocs, monthlyDocs, txDocs, rlDocs, calls, pace,
                   clock, userDocs, mailbox>>

\* user.save() writes the two reset fields; up to
\* await sendPasswordResetEmail(...)
ForgotSave(s) ==
    /\ req[s].pc = "forgot_save"
    /\ userDocs' = {IF u.id = req[s].user
                    THEN [u EXCEPT !.passwordResetToken = Sha256(req[s].token),
                                   !.passwordResetExpires = req[s].expires]
                    ELSE u : u \in userDocs}
    /\ req' = [req EXCEPT ![s] = [pc |-> "forgot_send", token |-> req[s].token]]
    /\ UNCHANGED <<sessions, today, budgetDocs, monthlyDocs, txDocs, rlDocs, nextId, last, calls, pace,
                   clock, mailbox>>

\* the e-mail with the reset link is sent, or sending it fails
ForgotSend(s, sent) ==
    /\ req[s].pc = "forgot_send"
    /\ req' = [req EXCEPT ![s] = Idle]
    /\ mailbox' = IF sent THEN mailbox \cup {[kind |-> "reset", token |-> req[s].token]}
                  ELSE mailbox
    /\ last' = AuthResponse("POST /users/forgotpassword",
                            IF sent THEN "reset_sent" ELSE "server_error")
    /\ UNCHANGED <<sessions, today, budgetDocs, monthlyDocs, txDocs, rlDocs, nextId, calls, pace,
                   clock, userDocs>>

\* router.post("/resetpassword/:token"), up to await User.findOne({...})
PostResetPassword(s, token, password) ==
    /\ Accepts(s)
    /\ req' = [req EXCEPT ![s] =
                  [pc |-> "reset_find", token |-> token, password |-> password]]
    /\ nextId' = [nextId EXCEPT !.request = @ + 1]
    /\ UNCHANGED <<sessions, today, budgetDocs, monthlyDocs, txDocs, rlDocs, last, calls, pace,
                   clock, userDocs, mailbox>>

\* findOne({ passwordResetToken: hashedToken,
\*           passwordResetExpires: { $gt: Date.now() } }) answers
ResetFind(s) ==
    /\ req[s].pc = "reset_find"
    /\ LET found == {u \in userDocs :
                        /\ u.passwordResetToken = Sha256(req[s].token)
                        /\ u.passwordResetExpires > clock}
       IN  IF found = {}
           THEN /\ req' = [req EXCEPT ![s] = Idle]
                /\ last' = AuthResponse("POST /users/resetpassword", "invalid_or_expired")
           ELSE /\ req' = [req EXCEPT ![s] =
                              [pc |-> "reset_save", token |-> req[s].token,
                               password |-> req[s].password,
                               user |-> SortById(found)[1].id, checkedAt |-> clock]]
                /\ last' = last
    /\ UNCHANGED <<sessions, today, budgetDocs, monthlyDocs, txDocs, rlDocs, nextId, calls, pace,
                   clock, userDocs, mailbox>>

\* user.password = password; both reset fields = undefined; await user.save()
ResetSave(s) ==
    /\ req[s].pc = "reset_save"
    /\ userDocs' = {IF u.id = req[s].user
                    THEN [u EXCEPT !.password = Bcrypt(req[s].password),
                                   !.passwordResetToken = JSUndefined,
                                   !.passwordResetExpires = JSUndefined]
                    ELSE u : u \in userDocs}
    /\ req' = [req EXCEPT ![s] = Idle]
    /\ last' = AuthResponse("POST /users/resetpassword", "password_reset")
    /\ UNCHANGED <<sessions, today, budgetDocs, monthlyDocs, txDocs, rlDocs, nextId, calls, pace,
                   clock, mailbox>>

\* router.post("/login") from browser b, up to await User.findOne({ email })
PostLogin(s, b, email, password) ==
    /\ Accepts(s)
    /\ req' = [req EXCEPT ![s] = [pc |-> "login_find", browser |-> b,
                                  email |-> email, password |-> password]]
    /\ nextId' = [nextId EXCEPT !.request = @ + 1]
    /\ UNCHANGED <<sessions, today, budgetDocs, monthlyDocs, txDocs, rlDocs, last, calls, pace,
                   clock, userDocs, mailbox>>

\* a login that lets users in whose e-mail address is not verified
LoginFindUnverified(s) ==
    /\ req[s].pc = "login_find"
    /\ LET found == {u \in userDocs : u.email = req[s].email}
       IN  IF found = {}
           THEN /\ req' = [req EXCEPT ![s] = Idle]
                /\ last' = AuthResponse("POST /users/login", "not_registered")
           ELSE /\ req' = [req EXCEPT ![s] =
                              [pc |-> "login_match", browser |-> req[s].browser,
                               password |-> req[s].password,
                               user |-> SortById(found)[1]]]
                /\ last' = last
    /\ UNCHANGED <<sessions, today, budgetDocs, monthlyDocs, txDocs, rlDocs, nextId, calls, pace,
                   clock, userDocs, mailbox>>

\* findOne answers: if (!user) ...; if (!user.isVerified) ...; up to
\* await user.matchPassword(password)
LoginFind(s) ==
    /\ req[s].pc = "login_find"
    /\ LET found == {u \in userDocs : u.email = req[s].email}
       IN  IF found = {}
           THEN /\ req' = [req EXCEPT ![s] = Idle]
                /\ last' = AuthResponse("POST /users/login", "not_registered")
           ELSE IF ~SortById(found)[1].isVerified
           THEN /\ req' = [req EXCEPT ![s] = Idle]
                /\ last' = AuthResponse("POST /users/login", "not_verified")
           ELSE /\ req' = [req EXCEPT ![s] =
                              [pc |-> "login_match", browser |-> req[s].browser,
                               password |-> req[s].password,
                               user |-> SortById(found)[1]]]
                /\ last' = last
    /\ UNCHANGED <<sessions, today, budgetDocs, monthlyDocs, txDocs, rlDocs, nextId, calls, pace,
                   clock, userDocs, mailbox>>

\* bcrypt.compare(enteredPassword, this.password) answers;
\* req.session.userId = user._id
LoginMatch(s) ==
    /\ req[s].pc = "login_match"
    /\ IF Bcrypt(req[s].password) = req[s].user.password
       THEN /\ sessions' = [sessions EXCEPT ![req[s].browser] =
                               [cookie |-> req[s].browser, userId |-> req[s].user.id]]
            /\ last' = AuthResponse("POST /users/login", "logged_in")
       ELSE /\ sessions' = sessions
            /\ last' = AuthResponse("POST /users/login", "password_incorrect")
    /\ req' = [req EXCEPT ![s] = Idle]
    /\ UNCHANGED <<today, budgetDocs, monthlyDocs, txDocs, rlDocs, nextId, calls, pace,
                   clock, userDocs, mailbox>>

\* router.get("/logout"): req.session.destroy(...)
GetLogout(b) ==
    /\ sessions' = [sessions EXCEPT ![b] = [cookie |-> b]]
    /\ last' = AuthResponse("GET /users/logout", "logged_out")
    /\ UNCHANGED <<today, budgetDocs, monthlyDocs, txDocs, rlDocs, nextId, req, calls, pace,
                   clock, userDocs, mailbox>>

\* the tokens of one kind that reached a mailbox
Mailed(kind) == {m.token : m \in {x \in mailbox : x.kind = kind}}

NextAuth ==
    \/ Tick
    \/ \E s \in Slots, b \in Browsers, e \in Emails, p \in Passwords : PostLogin(s, b, e, p)
    \/ \E s \in Slots : LoginFind(s)
    \/ \E s \in Slots : LoginMatch(s)
    \/ \E b \in Browsers : GetLogout(b)
    \/ \E s \in Slots, e \in Emails, p \in Passwords : PostRegister(s, e, p)
    \/ \E s \in Slots : RegisterFind(s)
    \/ \E s \in Slots : RegisterSave(s)
    \/ \E s \in Slots, sent \in BOOLEAN : RegisterSend(s, sent)
    \/ \E s \in Slots : \E t \in Mailed("verify") : GetVerifyEmail(s, t)
    \/ \E s \in Slots : VerifyFind(s)
    \/ \E s \in Slots : VerifySave(s)
    \/ \E s \in Slots, e \in Emails : PostForgotPassword(s, e)
    \/ \E s \in Slots : ForgotFind(s)
    \/ \E s \in Slots : ForgotSave(s)
    \/ \E s \in Slots, sent \in BOOLEAN : ForgotSend(s, sent)
    \/ \E s \in Slots : \E t \in Mailed("reset"), p \in Passwords :
          PostResetPassword(s, t, p)
    \/ \E s \in Slots : ResetFind(s)
    \/ \E s \in Slots : ResetSave(s)

SpecAuth == InitAuth /\ [][NextAuth]_vars

----------------------------------------------------------------------------
(* Recurring transactions: processRecurringTransactions, started by the      *)
(* daily cron job and by POST /transactions when a recurring template is     *)
(* saved.  Dates are days of the year 2025.  The templates the routes save    *)
(* here are of type income, for which the budget alert check of the loop is  *)
(* not entered; SpecAlert has a template of type expense.                    *)

\* days the clock advances, and documents kept of one materialised occurrence
MaxDays == 1

MaxCopies == 2

\* recurringInterval: { default: null } when the form sends none (the enum
\* lets no other string than the three intervals be stored)
JSNull == "null"

RECURSIVE MonthStart(_)
\* the days of the year before month m
MonthStart(m) == IF m = 1 THEN 0 ELSE MonthStart(m - 1) + DaysInMonth(m - 1)

\* the day of the year of new Date(), and the month a day is in
DayOfYear(date) == MonthStart(date.month) + date.day

MonthOfDay(n) == CHOOSE m \in 1..12 : MonthStart(m) < n /\ n <= MonthStart(m + 1)

\* a daily interval that skips a day
calculateNextDateSkipping(currentDate, interval) ==
    CASE interval = "daily" -> currentDate + 2
      [] interval = "weekly" -> currentDate + 7
      [] interval = "monthly" ->
            MonthStart(MonthOfDay(currentDate) + 1)
                + (currentDate - MonthStart(MonthOfDay(currentDate)))
      [] OTHER -> currentDate

\* setDate(getDate() + 1), setDate(getDate() + 7), setMonth(getMonth() + 1);
\* the switch has no default case
calculateNextDate(currentDate, interval) ==
    CASE interval = "daily" -> currentDate + 1
      [] interval = "weekly" -> currentDate + 7
      [] interval = "monthly" ->
            MonthStart(MonthOfDay(currentDate) + 1)
                + (currentDate - MonthStart(MonthOfDay(currentDate)))
      [] OTHER -> currentDate

\* what the form of a recurring transaction may hold: the interval (none:
\* the stored default null) and how many days back its date lies
RecurringForms ==
    {[interval |-> "daily", daysAgo |-> 0], [interval |-> "daily", daysAgo |-> 2],
     [interval |-> "weekly", daysAgo |-> 7], [interval |-> "monthly", daysAgo |-> 31],
     [interval |-> JSNull, daysAgo |-> 0]}

InitRecurring ==
    /\ today = Now
    /\ budgetDocs = {}
    /\ monthlyDocs = {}
    /\ clock = DayOfYear(Now)
    /\ userDocs = {}
    /\ mailbox = {}
    /\ sessions = NoSessions
    /\ txDocs = {}
    /\ rlDocs = {}
    /\ nextId = [tx |-> 1, request |-> 1]
    /\ req = [s \in Slots |-> Idle]
    /\ last = NoLast
    /\ calls = {}
    /\ pace = NoPace

\* a day passes
NextDay ==
    /\ clock < DayOfYear(Now) + MaxDays
    /\ clock' = clock + 1
    /\ UNCHANGED <<sessions, today, budgetDocs, monthlyDocs, txDocs, rlDocs, nextId, req, last, calls, pace,
                   userDocs, mailbox>>

\* processRecurringTransactions entered: const now = new Date(); up to
\* await Transaction.find({ isRecurring: true, nextRecurringDate: { $lte: now } })
RunCall == [pc |-> "run_find", now |-> clock, found |-> << >>, made |-> << >>]

\* router.post('/') with isRecurring on: the template is saved and the
\* processor is started without being awaited
PostRecurringTransaction(s, form) ==
    /\ Accepts(s)
    /\ nextId.tx <= MaxTxDocs
    /\ LET date == clock - form.daysAgo
       IN  txDocs' = txDocs \cup
              {[id |-> nextId.tx, user |-> "u1", type |-> "income",
                category |-> IF nextId.tx = 1 THEN "Salary" ELSE "Pension",
                amount |-> 1000, date |-> date, isRecurring |-> TRUE,
                recurringInterval |-> form.interval,
                nextRecurringDate |-> calculateNextDate(date, form.interval)]}
    /\ req' = [req EXCEPT ![s] = RunCall]
    /\ nextId' = [nextId EXCEPT !.tx = @ + 1, !.request = @ + 1]
    /\ UNCHANGED <<sessions, today, budgetDocs, monthlyDocs, rlDocs, last, calls, pace,
                   clock, userDocs, mailbox>>

\* router.put('/:id') on a stored template with the form's other fields as
\* they are: the interval is set, nextRecurringDate is kept, the template is
\* saved and the processor is started without being awaited
PutRecurringTransaction(s, id, interval) ==
    /\ Accepts(s)
    /\ \E t \in txDocs : t.isRecurring /\ t.id = id
    /\ txDocs' = {IF t.isRecurring /\ t.id = id
                   THEN [t EXCEPT !.recurringInterval = interval]
                   ELSE t : t \in txDocs}
    /\ req' = [req EXCEPT ![s] = RunCall]
    /\ nextId' = [nextId EXCEPT !.request = @ + 1]
    /\ UNCHANGED <<sessions, today, budgetDocs, monthlyDocs, rlDocs, last, calls, pace,
                   clock, userDocs, mailbox>>

\* cron.schedule('0 0 * * *', processRecurringTransactions)
CronRun(s) ==
    /\ Accepts(s)
    /\ req' = [req EXCEPT ![s] = RunCall]
    /\ nextId' = [nextId EXCEPT !.request = @ + 1]
    /\ UNCHANGED <<sessions, today, budgetDocs, monthlyDocs, txDocs, rlDocs, last, calls, pace,
                   clock, userDocs, mailbox>>

\* the run in slot s with the templates still to do; the first one is the
\* one of the while loop, of which round tells the iterations apart (their
\* number modulo 2).  found is dueTransactions as it was answered, made the
\* run's log of 'Created recurring transaction for <date> from template <id>'
\* (a line is kept MaxCopies times)
RunOn(r, queue) ==
    IF queue = << >> THEN Idle
    ELSE [pc |-> IF queue[1].nextRecurringDate <= r.now THEN "run_create"
                 ELSE "run_save",
          now |-> r.now, queue |-> queue, round |-> 0,
          found |-> r.found, made |-> r.made]

\* Transaction.find answers with the templates that are due
RunFind(s) ==
    /\ req[s].pc = "run_find"
    /\ LET dueTransactions ==
               SortById({t \in txDocs :
                            /\ t.isRecurring
                            /\ t.nextRecurringDate <= req[s].now})
       IN  req' = [req EXCEPT ![s] =
                      RunOn([req[s] EXCEPT !.found = dueTransactions],
                            dueTransactions)]
    /\ UNCHANGED <<sessions, today, budgetDocs, monthlyDocs, txDocs, rlDocs, nextId, last, calls, pace,
                   clock, userDocs, mailbox>>

\* the documents of one materialised occurrence: the template's user,
\* amount, type and category with the scheduled date
Copies(docs, trans) ==
    {d \in docs : /\ ~d.isRecurring
                  /\ d.user = trans.user /\ d.amount = trans.amount
                  /\ d.type = trans.type /\ d.category = trans.category
                  /\ d.date = trans.nextRecurringDate}

\* trans.nextRecurringDate = calculateNextDate(...) and the while condition
\* is tested again
Advance(r) ==
    [RunOn(r, << [r.queue[1] EXCEPT !.nextRecurringDate =
                     calculateNextDate(@, r.queue[1].recurringInterval)] >>
                 \o Tail(r.queue))
        EXCEPT !.round = 1 - r.round]

\* await newTransaction.save() answers: one more document with the scheduled
\* date (counted up to MaxCopies) and its line in the log; for an expense the
\* budget alert check follows, else the next date
RunCreate(s) ==
    /\ req[s].pc = "run_create"
    /\ LET trans == req[s].queue[1]
           copies == Cardinality(Copies(txDocs, trans))
           logged == [req[s] EXCEPT !.made =
                        IF Len(SelectSeq(@, LAMBDA l :
                                  /\ l.template = trans.id
                                  /\ l.date = trans.nextRecurringDate))
                              >= MaxCopies
                        THEN @
                        ELSE Append(@, [template |-> trans.id,
                                        date |-> trans.nextRecurringDate])]
       IN  /\ txDocs' =
                 IF copies >= MaxCopies THEN txDocs
                 ELSE txDocs \cup
                        {[copy |-> copies + 1, user |-> trans.user,
                          amount |-> trans.amount, type |-> trans.type,
                          category |-> trans.category,
                          date |-> trans.nextRecurringDate, isRecurring |-> FALSE]}
           /\ req' = [req EXCEPT ![s] =
                         IF trans.type = "expense"
                         THEN [logged EXCEPT !.pc = "run_alert"]
                         ELSE Advance(logged)]
    /\ UNCHANGED <<sessions, today, budgetDocs, monthlyDocs, rlDocs, nextId, last, calls, pace,
                   clock, userDocs, mailbox>>

\* the alert e-mails sent for a budget in a calendar month
Alerts(mails, budget, month) ==
    {m \in mails : m.kind = "budget_alert" /\ m.budget = budget.id /\ m.month = month}

\* the budget alert check of an expense, its awaits taken in one step:
\* Budget.findOne({ user, category }), the month's expenses of the category,
\* totalSpent >= budget.amount * 0.9 and no alert marked this month,
\* User.findById, sendBudgetAlertEmail (which catches its own errors),
\* budget.lastAlertSent = today and budget.save().  BudgetSchema has no path
\* lastAlertSent: the mark stays on the object in memory, save() stores
\* nothing of it, and the budget found has none
RunBudgetAlert(s, sent) ==
    /\ req[s].pc = "run_alert"
    /\ LET trans == req[s].queue[1]
           found == {b \in budgetDocs : b.user = trans.user /\ b.category = trans.category}
           budget == CHOOSE b \in found : \A c \in found : b.id <= c.id
           monthTransactions ==
               {t \in txDocs : /\ t.user = trans.user /\ t.type = "expense"
                               /\ t.category = trans.category
                               /\ MonthOfDay(t.date) = MonthOfDay(trans.nextRecurringDate)}
           totalSpent == SumAmount(monthTransactions)
           marked == "lastAlertSent" \in DOMAIN budget
       IN  /\ mailbox' =
                 IF /\ found # {}
                    /\ 10 * totalSpent >= 9 * budget.amount
                    /\ (~marked \/ budget.lastAlertSent < MonthOfDay(clock))
                    /\ \E u \in userDocs : u.id = trans.user
                    /\ sent
                    /\ Cardinality(Alerts(mailbox, budget, MonthOfDay(clock))) < MaxCopies
                 THEN mailbox \cup
                        {[kind |-> "budget_alert", budget |-> budget.id,
                          month |-> MonthOfDay(clock),
                          copy |-> Cardinality(Alerts(mailbox, budget, MonthOfDay(clock))) + 1]}
                 ELSE mailbox
    /\ req' = [req EXCEPT ![s] = Advance(req[s])]
    /\ UNCHANGED <<sessions, today, budgetDocs, monthlyDocs, txDocs, rlDocs, nextId, last, calls, pace,
                   clock, userDocs>>

\* await trans.save() answers: the template's next date is stored; the for
\* loop goes on with the next template
RunSaveTemplate(s) ==
    /\ req[s].pc = "run_save"
    /\ LET trans == req[s].queue[1]
       IN  txDocs' = {IF t.isRecurring /\ t.id = trans.id
                      THEN [t EXCEPT !.nextRecurringDate = trans.nextRecurringDate]
                      ELSE t : t \in txDocs}
    /\ req' = [req EXCEPT ![s] = RunOn(req[s], Tail(req[s].queue))]
    /\ UNCHANGED <<sessions, today, budgetDocs, monthlyDocs, rlDocs, nextId, last, calls, pace,
                   clock, userDocs, mailbox>>

\* an await of the run rejects: catch (error) { console.error(...) }
RunFails(s) ==
    /\ req[s].pc \in {"run_find", "run_create", "run_alert", "run_save"}
    /\ req' = [req EXCEPT ![s] = Idle]
    /\ UNCHANGED <<sessions, today, budgetDocs, monthlyDocs, txDocs, rlDocs, nextId, last, calls, pace,
                   clock, userDocs, mailbox>>

NextRecurring ==
    \/ NextDay
    \/ \E s \in Slots : \E form \in RecurringForms : PostRecurringTransaction(s, form)
    \/ \E s \in Slots : \E id \in 1..MaxTxDocs :
          \E interval \in {"daily", "weekly"} :
             PutRecurringTransaction(s, id, interval)
    \/ \E s \in Slots : CronRun(s)
    \/ \E s \in Slots : RunFind(s)
    \/ \E s \in Slots : RunCreate(s)
    \/ \E s \in Slots : RunSaveTemplate(s)
    \/ \E s \in Slots : RunFails(s)

SpecRecurring == InitRecurring /\ [][NextRecurring]_vars

\* the database answers every query a run sends
SpecRecurringFair ==
    SpecRecurring
        /\ \A s \in Slots : WF_vars(RunFind(s) \/ RunCreate(s) \/ RunSaveTemplate(s))

\* module.exports = { start, processRecurringTransactions }
ServiceExports == {"start", "processRecurringTransactions"}

\* router.put('/:id') with isRecurring on for a stored transaction doc that is
\* not recurring, the form's other fields as they are.  The route's
\* calculateNextDate is const { ..., calculateNextDate } = require(service):
\* undefined when the service does not export it, and calling it throws a
\* TypeError that the route's catch answers.  Otherwise the template is saved
\* and the processor is started without being awaited
PutMakeRecurring(s, doc, interval) ==
    /\ Accepts(s)
    /\ doc \in txDocs
    /\ ~doc.isRecurring
    /\ IF "calculateNextDate" \in ServiceExports
       THEN /\ txDocs' = (txDocs \ {doc}) \cup
                   {[id |-> nextId.tx, user |-> doc.user, type |-> doc.type,
                     category |-> doc.category, amount |-> doc.amount,
                     date |-> doc.date, isRecurring |-> TRUE,
                     recurringInterval |-> interval,
                     nextRecurringDate |-> calculateNextDate(doc.date, interval)]}
            /\ req' = [req EXCEPT ![s] = RunCall]
            /\ nextId' = [nextId EXCEPT !.tx = @ + 1, !.request = @ + 1]
            /\ last' = Response("PUT /transactions/:id", doc.user, "updated", TRUE, "started")
       ELSE /\ txDocs' = txDocs
            /\ req' = req
            /\ nextId' = [nextId EXCEPT !.request = @ + 1]
            /\ last' = Response("PUT /transactions/:id", doc.user, "error", FALSE, "none")
    /\ UNCHANGED <<sessions, today, budgetDocs, monthlyDocs, rlDocs, calls, pace,
                   clock, userDocs, mailbox>>

\* the budget alerts of the processor: a user with a Food budget of 1000 for
\* April and a daily Food expense entered two days ago
AlertAmounts == {100, 500}

InitAlert ==
    /\ today = Now
    /\ budgetDocs = {BudgetDoc(1, "u1", "Food", 1000, CurMonth)}
    /\ monthlyDocs = {}
    /\ clock = DayOfYear(Now)
    /\ userDocs = {[id |-> "u1", email |-> "a@x", name |-> "A"]}
    /\ mailbox = {}
    /\ sessions = NoSessions
    /\ \E amount \in AlertAmounts :
          txDocs = {[id |-> 1, user |-> "u1", type |-> "expense", category |-> "Food",
                     amount |-> amount, date |-> DayOfYear(Now) - 2,
                     isRecurring |-> TRUE, recurringInterval |-> "daily",
                     nextRecurringDate |-> DayOfYear(Now) - 1]}
    /\ rlDocs = {}
    /\ nextId = [tx |-> 2, request |-> 1]
    /\ req = [s \in Slots |-> Idle]
    /\ last = NoLast
    /\ calls = {}
    /\ pace = NoPace

NextAlert ==
    \/ NextDay
    \/ \E s \in Slots : CronRun(s)
    \/ \E s \in Slots : RunFind(s)
    \/ \E s \in Slots : RunCreate(s)
    \/ \E s \in Slots, sent \in BOOLEAN : RunBudgetAlert(s, sent)
    \/ \E s \in Slots : \E doc \in txDocs :
          \E interval \in {"daily", "weekly", "monthly"} :
             PutMakeRecurring(s, doc, interval)
    \/ \E s \in Slots : RunSaveTemplate(s)
    \/ \E s \in Slots : RunFails(s)

SpecAlert == InitAlert /\ [][NextAlert]_vars

----------------------------------------------------------------------------
(* Properties of the pacing functions (SpecPace) *)

PaceTypes == {"warning", "caution", "positive", "info"}

C4_ZeroBudgetIsWarning ==
    (pace.step = "done" /\ pace.amount = 0 /\ pace.spent > 0) =>
        /\ pace.paceData.pacePercentage = Infinity
        /\ pace.recommendation.type = "warning"

\* a zero budget with money spent was classified
C4_Witness ==
    /\ pace.step = "done"
    /\ pace.currentDay = today.day
    /\ pace.daysInMonth = DaysInMonth(today.month)
    /\ pace.amount = 0
    /\ pace.spent > 0
    /\ pace.recommendation.type = "warning"
    /\ pace.recommendation.message.kind = "already_over_limit"

----------------------------------------------------------------------------
(* Properties of generateRecommendations (SpecGen) *)

\* the call of generateRecommendations that completed most recently
LastCall == last.call

Returned(c) == c.outcome = "returned"

CountWhere(list, Test(_)) == Cardinality({i \in 1..Len(list) : Test(list[i])})

\* the fields of a recommendation the callers show: category, message, type
\* and, where present, pacePercentage
Shown(rec) ==
    [category |-> rec.category, message |-> rec.message, type |-> rec.type,
     pacePercentage |->
        IF "pacePercentage" \in DOMAIN rec THEN << rec.pacePercentage >> ELSE << >>]

ShownList(list) == [i \in 1..Len(list) |-> Shown(list[i])]

\* C1 as claimed: when the model.save() at the end of generateRecommendations
\* throws, the call still returns the list computed from its budgets and
\* transactions.
C1_SaveFailureReturnsList ==
    LastCall.outcome # "none" =>
        (LastCall.failedAt = "save" =>
            /\ Returned(LastCall)
            /\ LastCall.list =
                   RecommendationList(LastCall.budgets, LastCall.transactions,
                                      LastCall.now))

\* C3 as claimed: for a current-period budget with spent > 0 and pace above
\* 100, generateRecommendations gives the 'already over the limit' variant
\* reporting the amount spent when remaining <= 0, and otherwise the
\* 'projected to exceed' variant reporting projectedSpending - budgetAmount.
C3_OverspendVariantsInList ==
    Returned(LastCall) =>
        \A i \in 1..Len(LastCall.budgets) :
            LET b == LastCall.budgets[i]
                spent == SumAmount(BudgetExpenses(b, LastCall.transactions))
                pd == calculateBudgetPace(JSBudgetObj(b.amount), spent,
                                          LastCall.now.day,
                                          DaysInMonth(LastCall.now.month))
            IN  (/\ IsCurrentPeriod(b, LastCall.now)
                 /\ spent > 0
                 /\ RatGT(pd.pacePercentage, 100)) =>
                    \E j \in 1..Len(LastCall.list) :
                        LET rec == LastCall.list[j]
                        IN  /\ rec.category = b.category
                            /\ rec.type = "warning"
                            /\ IF pd.remaining <= 0
                               THEN /\ rec.message.kind = "already_over_limit"
                                    /\ rec.message.amount = spent
                               ELSE /\ rec.message.kind = "projected_to_exceed"
                                    /\ rec.message.amount =
                                           formatCurrency(
                                               RatSubInt(pd.projectedSpending, b.amount))

\* the stored record of user u holds exactly the batch list
StoresBatch(u, list) ==
    \E d \in rlDocs :
        /\ d.userId = u
        /\ Len(d.recommendationHistory) = Len(list)
        /\ \A i \in 1..Len(list) :
               d.recommendationHistory[i].recommendation = list[i].message

\* C5 as claimed: after generateRecommendations returns for a user, that
\* user's stored record holds exactly the batch just returned.
C5_ReturnedBatchIsStored ==
    Returned(LastCall) => StoresBatch(LastCall.user, LastCall.list)

SameInputs(c1, c2) ==
    /\ c1.budgets = c2.budgets
    /\ c1.transactions = c2.transactions
    /\ c1.now = c2.now

\* C8: two calls of generateRecommendations with the same budgets,
\* transactions and date return the same list (order, category, message,
\* type, pacePercentage), whatever history was stored when each ran.
C8_SameInputsSameList ==
    \A c1 \in calls, c2 \in calls :
        SameInputs(c1, c2) => ShownList(c1.list) = ShownList(c2.list)

\* two calls with the same budgets returned, having read different histories
C8_Witness ==
    \E c1 \in calls, c2 \in calls :
        /\ SameInputs(c1, c2)
        /\ c1.historyRead # c2.historyRead
        /\ Len(c1.budgets) > 1
        /\ ShownList(c1.list) = ShownList(c2.list)

IsOverall(rec) == rec.category = "overall"

IsGeneral(rec) == rec.type = "general"

NumCurrent(c) == Len(CurrentBudgets(c.budgets, c.now))

TotalBudgetOf(c) == SumAmount(SeqRange(CurrentBudgets(c.budgets, c.now)))

TotalSpentOf(c) ==
    SumAmount({t \in c.transactions :
                  t.type = "expense" /\ t.month = c.now.month /\ t.year = c.now.year})

\* totalSpent / (totalBudget / daysInMonth * currentDay) * 100, as a quotient
QuotientPace(c) ==
    Rat(TotalSpentOf(c) * 100 * DaysInMonth(c.now.month), TotalBudgetOf(c) * c.now.day)

\* exactly one 'overall' entry iff more than one current budget, its type
\* warning iff the given pace is above 110 and positive otherwise
OverallRule(c, overallPace) ==
    /\ CountWhere(c.list, IsOverall) = IF NumCurrent(c) > 1 THEN 1 ELSE 0
    /\ \A i \in 1..Len(c.list) :
           IsOverall(c.list[i]) =>
               c.list[i].type = IF RatGT(overallPace, 110) THEN "warning" ELSE "positive"

C10_Padding ==
    Returned(LastCall) =>
        LET list == LastCall.list
            general == CountWhere(list, IsGeneral)
            produced == Len(list) - general
        IN  /\ general = IF produced < 3 THEN 2 ELSE 0
            /\ \A i \in 1..Len(list) : IsGeneral(list[i]) <=> i > produced
            /\ produced = NumCurrent(LastCall) + CountWhere(list, IsOverall)

\* one recommendation was produced and padded to three
C10_Witness ==
    /\ Returned(LastCall)
    /\ NumCurrent(LastCall) = 1
    /\ Len(LastCall.list) = 3
    /\ CountWhere(LastCall.list, IsGeneral) = 2

----------------------------------------------------------------------------
(* Properties of the routes (Spec) *)

RecomputeOps ==
    {"POST /transactions", "PUT /transactions/:id", "DELETE /transactions/:id",
     "DELETE /transactions/all-by-month", "POST /budgets", "PUT /budgets/:id",
     "DELETE /budgets/:id", "DELETE /budgets/all-by-month"}

\* C6: every successful create, update or delete of a transaction or of a
\* budget (by any of the eight operations) that wrote or removed a stored
\* document has started updateRecommendationsRealTime for the acting user.
C6_RecomputeAfterEveryChange ==
    (/\ last.op \in RecomputeOps
     /\ last.outcome = "success"
     /\ last.changed) => last.recompute = last.user

\* at most one Budget document per (user, category, month, year)
OneBudgetPerKey ==
    \A b1 \in budgetDocs, b2 \in budgetDocs : Key(b1) = Key(b2) => b1 = b2

\* the POST /budgets just answered left its key with the one record it had
\* before, now holding the posted amount
PostUpdatedInPlace ==
    /\ Cardinality(last.keyBefore) = 1
    /\ last.keyAfter = {[k EXCEPT !.amount = last.amount] : k \in last.keyBefore}

----------------------------------------------------------------------------
(* Properties of the list under changing transactions and days (SpecList) *)

\* the sum of the expenses of the budget's category, month and year
MatchingSum(b, transactions) ==
    SumAmount({t \in transactions :
                  /\ t.type = "expense"
                  /\ t.category = b.category
                  /\ t.month = b.month /\ t.year = b.year})

\* the entries of a list that carry the category
OfCategory(list, category) == {i \in 1..Len(list) : list[i].category = category}

\* C11: for every current-period budget whose matching expenses sum to 0 the
\* returned list holds exactly one recommendation of the budget's category;
\* it is the info "no spending yet" message with pacePercentage 0, not the
\* classification calculateBudgetPace and getPaceRecommendation would give,
\* whatever the budget amount and the day of the month.
C11_NoSpendingIsInfo ==
    Returned(LastCall) =>
        \A i \in 1..Len(LastCall.budgets) :
            LET b == LastCall.budgets[i]
                own == OfCategory(LastCall.list, b.category)
            IN  (IsCurrentPeriod(b, LastCall.now)
                    /\ MatchingSum(b, LastCall.transactions) = 0)
                => /\ Cardinality(own) = 1
                   /\ \A k \in own :
                        /\ LastCall.list[k].type = "info"
                        /\ LastCall.list[k].message.kind = "no_spending"
                        /\ LastCall.list[k].pacePercentage = RatInt(0)

\* a call on the last day of the month whose Food budget of amount 0 has one
\* matching expense, of amount 0, next to an expense of another category
C11_Witness ==
    /\ Returned(LastCall)
    /\ LastCall.now.day = 30
    /\ \E i \in 1..Len(LastCall.budgets) :
          /\ LastCall.budgets[i].category = "Food"
          /\ LastCall.budgets[i].amount = 0
          /\ IsCurrentPeriod(LastCall.budgets[i], LastCall.now)
    /\ \E t \in LastCall.transactions :
          t.type = "expense" /\ t.category = "Food" /\ t.month = CurMonth
    /\ \E t \in LastCall.transactions : t.category = "Misc"
    /\ \E k \in 1..Len(LastCall.list) :
          /\ LastCall.list[k].category = "Food"
          /\ LastCall.list[k].message.kind = "no_spending"

----------------------------------------------------------------------------
(* Budgets outside the current period (SpecGen) *)

\* C12 as claimed: every budget passed to generateRecommendations that is not
\* of the current month and year gets exactly one recommendation of its
\* category in the returned list, an info one (the past-month or future-month
\* message), and is not counted among the budgets that bring the overall
\* recommendation.
C12_NonCurrentBudgetGetsInfo ==
    Returned(LastCall) =>
        /\ \A i \in 1..Len(LastCall.budgets) :
              LET b == LastCall.budgets[i]
                  own == OfCategory(LastCall.list, b.category)
              IN  ~IsCurrentPeriod(b, LastCall.now)
                  => /\ Cardinality(own) = 1
                     /\ \A k \in own : LastCall.list[k].type = "info"
        /\ (NumCurrent(LastCall) <= 1
                => \A k \in 1..Len(LastCall.list) : ~IsOverall(LastCall.list[k]))

----------------------------------------------------------------------------
(* What a budget's spending is made of (SpecList) *)

\* the transactions that are an expense of some passed budget's category,
\* month and year
Relevant(c) ==
    {t \in c.transactions :
        /\ t.type = "expense"
        /\ \E i \in 1..Len(c.budgets) :
              /\ t.category = c.budgets[i].category
              /\ t.month = c.budgets[i].month
              /\ t.year = c.budgets[i].year}

\* the recommendations of a returned list that belong to a budget's category
PerCategory(c) ==
    SelectSeq(c.list,
              LAMBDA rec : \E i \in 1..Len(c.budgets) :
                              rec.category = c.budgets[i].category)

\* two calls for the same user, budgets and day whose transactions differ
\* at most in transactions that are relevant to no budget
SameRelevant(c1, c2) ==
    /\ c1.user = c2.user
    /\ c1.budgets = c2.budgets
    /\ c1.now = c2.now
    /\ Relevant(c1) = Relevant(c2)

\* C13: the recommendation of every current budget is the one its matching
\* expenses (type expense, same category, dated in the budget's month and
\* year) give: no_spending exactly when they sum to 0, else the pace of their
\* sum; and two calls whose transactions differ only in income or saving
\* transactions, expenses of another category or expenses of another month
\* return the same per-category recommendations.
C13_OnlyMatchingExpensesCount ==
    Returned(LastCall) =>
        /\ \A i \in 1..Len(LastCall.budgets) :
              LET b == LastCall.budgets[i]
                  sum == MatchingSum(b, LastCall.transactions)
                  own == OfCategory(LastCall.list, b.category)
              IN  IsCurrentPeriod(b, LastCall.now) =>
                    \A k \in own :
                        /\ (LastCall.list[k].message.kind = "no_spending") <=> (sum = 0)
                        /\ sum # 0 =>
                              LastCall.list[k].pacePercentage =
                                  calculateBudgetPace(JSBudgetObj(b.amount), sum,
                                                      LastCall.now.day,
                                                      DaysInMonth(LastCall.now.month))
                                      .pacePercentage
        /\ \A c \in calls :
              SameRelevant(c, LastCall) => PerCategory(c) = PerCategory(LastCall)

\* two calls around a change of transactions: both count the Food expense of
\* 1800 against the Food budget of 3000, the later one was made with a
\* different set of transactions
C13_Witness ==
    /\ Returned(LastCall)
    /\ \E c \in calls :
          /\ SameRelevant(c, LastCall)
          /\ c.transactions # LastCall.transactions
          /\ \E t \in Relevant(c) : t.amount = 1800
          /\ \E t \in LastCall.transactions : t.type = "income"
          /\ \E i \in 1..Len(c.budgets) :
                c.budgets[i].category = "Food" /\ c.budgets[i].amount = 3000
          /\ Len(PerCategory(LastCall)) > 0

----------------------------------------------------------------------------
(* Further properties of calculateBudgetPace and getPaceRecommendation        *)
(* (SpecPace)                                                                 *)

\* the metrics calculateBudgetPace returns
PaceMetrics ==
    {"spent", "pacePercentage", "dailyRate", "projectedSpending", "remaining",
     "dailyBudget", "idealSpentByNow"}

\* the metrics of the inputs of this state with another day or another spent
PaceWith(spent, currentDay) ==
    calculateBudgetPace(JSBudgetObj(pace.amount), spent, currentDay, pace.daysInMonth)

\* a <= b for two paces, Infinity included
RatLeq(a, b) ==
    IF b.d = 0 THEN TRUE
    ELSE IF a.d = 0 THEN FALSE
    ELSE IF a.d = b.d THEN a.n <= b.n
    ELSE a.n * b.d <= b.n * a.d

\* C14: for every daysInMonth > 0, every currentDay (0 and negative ones
\* included) and every spent >= 0, calculateBudgetPace divides by nothing
\* that is zero and returns every metric; for currentDay <= 0 the metrics
\* are those of currentDay = 1.
C14_NoDivisionByZero ==
    pace.step \in {"paced", "done"} =>
        LET p == pace.paceData
        IN  /\ PaceMetrics \subseteq DOMAIN p
            /\ \A m \in {"dailyRate", "projectedSpending", "dailyBudget",
                          "idealSpentByNow"} : p[m].d > 0
            /\ \/ p.pacePercentage.d > 0
               \/ /\ p.pacePercentage = Infinity
                  /\ p.idealSpentByNow.n = 0
                  /\ pace.spent > 0
            /\ pace.currentDay <= 0 =>
                  \A m \in PaceMetrics : p[m] = PaceWith(pace.spent, 1)[m]

\* the metrics of a budget of 3000 with 1500 spent, computed for day -1
C14_Witness ==
    /\ pace.step = "paced"
    /\ pace.currentDay = -1
    /\ pace.amount = 3000
    /\ pace.spent = 1500
    /\ pace.paceData.dailyRate = Rat(1500, 1)

\* C15: with the budget amount, currentDay and daysInMonth fixed,
\* pacePercentage never decreases when spent grows; with a budget amount of 0
\* it is 0 for spent 0 and Infinity for every spent > 0.
C15_MonotoneInSpent ==
    pace.step \in {"paced", "done"} =>
        /\ \A sp \in PaceSpents :
              sp <= pace.spent =>
                  RatLeq(PaceWith(sp, pace.currentDay).pacePercentage,
                         pace.paceData.pacePercentage)
        /\ pace.amount = 0 =>
              pace.paceData.pacePercentage =
                  IF pace.spent = 0 THEN RatInt(0) ELSE Infinity

\* a pace computed for a spent above the smallest positive one, with a
\* budget amount above 0
C15_Witness ==
    /\ pace.step = "paced"
    /\ pace.amount = 1000
    /\ pace.spent = 600
    /\ pace.currentDay = 10
    /\ RatGT(pace.paceData.pacePercentage, 100)

\* C17 as claimed (README): warning when the pace is over 100, caution when
\* it is between 90 and 100, positive when it is under 70, info when it is
\* between 71 and 89.
C17_ReadmeBands ==
    pace.step = "done" =>
        LET pp == pace.paceData.pacePercentage
            type == pace.recommendation.type
        IN  /\ type \in PaceTypes
            /\ RatGT(pp, 100) => type = "warning"
            /\ (RatGE(pp, 90) /\ RatLE(pp, 100)) => type = "caution"
            /\ RatLT(pp, 70) => type = "positive"
            /\ (RatGE(pp, 71) /\ RatLE(pp, 89)) => type = "info"

----------------------------------------------------------------------------
(* The pace of a budget spent exactly on the last day (SpecDouble) *)

\* the double 100
Double100 == DoubleOfInt(100)

\* the states the claim is about: the pace of a budget above 0 computed on
\* the last day of the month with spent equal to the budget
SpentExactlyOnLastDay ==
    /\ pace.step = "done"
    /\ pace.amount > 0
    /\ pace.currentDay = pace.daysInMonth
    /\ pace.spent = pace.amount

\* the distance of two doubles of one exponent, in units in the last place
UlpsApart(x, y) ==
    StripZeros(IF GeqBits(x.m, y.m) THEN SubBits(x.m, y.m) ELSE SubBits(y.m, x.m))

\* C16 as claimed: for every budgetAmount > 0 and daysInMonth > 0,
\* calculateBudgetPace with currentDay = daysInMonth and spent = budgetAmount
\* returns pacePercentage equal to 100.
C16_PaceIsExactly100 ==
    SpentExactlyOnLastDay =>
        pace.pacePercentage = [kind |-> "number", value |-> Double100]

\* C16 amended: in that case pacePercentage is 100 up to the rounding of the
\* two divisions and two multiplications: a double of the exponent of 100 at
\* most 4 units in the last place away from 100.
C16_PaceIs100WithinRounding ==
    SpentExactlyOnLastDay =>
        /\ pace.pacePercentage.kind = "number"
        /\ pace.pacePercentage.value.e = Double100.e
        /\ \E k \in 0..4 : UlpsApart(pace.pacePercentage.value, Double100) = Bits(k)

\* a budget of 61 spent exactly on day 28 of 28: the pace is a double next
\* to 100, not 100
C16_Witness ==
    /\ SpentExactlyOnLastDay
    /\ pace.amount = 61
    /\ pace.daysInMonth = 28
    /\ pace.pacePercentage.kind = "number"
    /\ pace.pacePercentage.value # Double100
    /\ pace.pacePercentage.value.e = Double100.e

----------------------------------------------------------------------------
(* The one-time tokens of the account routes (SpecAuth) *)

\* the stored user a request has loaded
StoredUser(r) == {u \in userDocs : u.id = r.user}

\* the step by which slot s answers that the token was accepted
AcceptsToken(s) ==
    /\ req[s].pc \in {"verify_save", "reset_save"}
    /\ req'[s] = Idle

\* the step by which slot s answers that the token is invalid or expired
RejectsToken(s) ==
    /\ req[s].pc \in {"verify_find", "reset_find"}
    /\ req'[s] = Idle

\* C18 as claimed: a verification or reset token is accepted only while it
\* is the token stored for the user and less than 10 minutes after it was
\* generated; accepting it clears the stored token; a token accepted
\* before, expired or superseded by a newer one is rejected, and a rejection
\* changes no field of any user.
C18_TokenAcceptedOnlyWhileStored ==
    [][\A s \in Slots :
          /\ AcceptsToken(s) =>
                \A u \in StoredUser(req[s]) :
                    IF req[s].pc = "verify_save"
                    THEN /\ u.emailVerificationToken = Sha256(req[s].token)
                         /\ req[s].checkedAt < u.emailVerificationExpires
                         /\ \A v \in userDocs' :
                               v.id = u.id => v.emailVerificationToken = JSUndefined
                    ELSE /\ u.passwordResetToken = Sha256(req[s].token)
                         /\ req[s].checkedAt < u.passwordResetExpires
                         /\ \A v \in userDocs' :
                               v.id = u.id => v.passwordResetToken = JSUndefined
          /\ RejectsToken(s) => userDocs' = userDocs]_vars

----------------------------------------------------------------------------
(* Properties of recurring transactions (SpecRecurring, SpecRecurringFair) *)

\* the generated transactions of template t with the scheduled date
Generated(t, date) ==
    {d \in txDocs : /\ ~d.isRecurring
                    /\ d.user = t.user /\ d.amount = t.amount
                    /\ d.type = t.type /\ d.category = t.category
                    /\ d.date = date}

\* C19: no scheduled occurrence of a recurring template is materialised
\* twice, whether runs of processRecurringTransactions overlap or fail
\* part-way: for every template and every scheduled date after the
\* template's own date there is at most one generated transaction.
C19_NoOccurrenceTwice ==
    \A t \in txDocs :
       t.isRecurring =>
          \A date \in (t.date + 1)..(DayOfYear(Now) + MaxDays) :
             Cardinality(Generated(t, date)) <= 1

\* a run of processRecurringTransactions is under way in slot s
Running(s) == req[s].pc \in {"run_find", "run_create", "run_alert", "run_save"}

\* C20: every run of processRecurringTransactions terminates, whatever
\* recurringInterval the due templates have (daily, weekly, monthly or the
\* null default): a run that is under way is eventually over.
C20_EveryRunTerminates == \A s \in Slots : Running(s) ~> ~Running(s)

\* the scheduled date one interval after a scheduled date: the next day, the
\* same day of the next week, the same day of the next month
OneIntervalLater(date, interval) ==
    IF interval = "daily" THEN date + 1
    ELSE IF interval = "weekly" THEN date + 7
    ELSE MonthStart(MonthOfDay(date) + 1) + (date - MonthStart(MonthOfDay(date)))

RECURSIVE ScheduledUpTo(_, _, _)
\* the scheduled dates from date on that are not later than now
ScheduledUpTo(date, interval, now) ==
    IF date > now THEN << >>
    ELSE << date >> \o ScheduledUpTo(OneIntervalLater(date, interval), interval, now)

RECURSIVE FirstLater(_, _, _)
\* the first scheduled date from date on that is later than now
FirstLater(date, interval, now) ==
    IF date > now THEN date
    ELSE FirstLater(OneIntervalLater(date, interval), interval, now)

\* the dates of the transactions run r logged as created from template id
MadeFrom(r, id) ==
    LET lines == SelectSeq(r.made, LAMBDA l : l.template = id)
    IN  [i \in 1..Len(lines) |-> lines[i].date]

\* the template of run r's while loop as Transaction.find answered it
AsFound(r) == r.found[CHOOSE i \in 1..Len(r.found) : r.found[i].id = r.queue[1].id]

\* run r has ended the while loop of a template: it created exactly one
\* transaction for every scheduled date up to now, each stored with the
\* template's user, amount, type and category, and holds the first scheduled
\* date later than now
CaughtUp(r) ==
    LET t == AsFound(r)
        dates == ScheduledUpTo(t.nextRecurringDate, t.recurringInterval, r.now)
    IN  /\ t.recurringInterval \in {"daily", "weekly", "monthly"}
        /\ dates # << >>
        /\ MadeFrom(r, t.id) = dates
        /\ \A i \in 1..Len(dates) :
              Copies(txDocs, [t EXCEPT !.nextRecurringDate = dates[i]]) # {}
        /\ r.queue[1].nextRecurringDate
              = FirstLater(t.nextRecurringDate, t.recurringInterval, r.now)

\* the stored templates
Templates(docs) == {t \in docs : t.isRecurring}

\* C21: a run of processRecurringTransactions that goes through without
\* error has, for every template that was due at its start, created exactly
\* one non-recurring transaction per scheduled date up to now (with the
\* template's user, amount, type and category), and saves as the template's
\* nextRecurringDate the first scheduled date later than now; it changes no
\* other template.
C21_RunCatchesUp ==
    [][\A s \in Slots :
          (Running(s) /\ req'[s] # req[s]) =>
             IF req[s].pc = "run_save"
             THEN /\ CaughtUp(req[s])
                  /\ \/ txDocs' =
                           {IF t.isRecurring /\ t.id = req[s].queue[1].id
                            THEN [t EXCEPT !.nextRecurringDate =
                                              req[s].queue[1].nextRecurringDate]
                            ELSE t : t \in txDocs}
                     \/ req'[s] = Idle /\ txDocs' = txDocs
             ELSE Templates(txDocs') = Templates(txDocs)]_vars

\* a run has caught up two dates of the second of two due templates
C21_Witness ==
    \E s \in Slots :
       /\ Running(s)
       /\ req[s].pc = "run_save"
       /\ Len(req[s].found) = 2
       /\ Len(req[s].queue) = 1
       /\ Len(MadeFrom(req[s], req[s].queue[1].id)) >= 2
       /\ CaughtUp(req[s])

----------------------------------------------------------------------------
(* Properties of the processor's budget alerts (SpecAlert) *)

\* C22: the recurring-transaction processor sends at most one budget alert
\* e-mail per budget per calendar month, whether for later occurrences of
\* the same catch-up run or in later runs.
C22_OneAlertPerBudgetAndMonth == \A m \in mailbox : m.kind = "budget_alert" => m.copy <= 1

\* C23: PUT /transactions/:id that turns a stored non-recurring transaction
\* of the acting user into a recurring one (interval daily, weekly or
\* monthly) succeeds: it answers 'Transaction updated' and the transaction is
\* stored with isRecurring true, the given interval and nextRecurringDate one
\* interval after its date.
C23_PutMakesRecurring ==
    [][(last' # last /\ last'.op = "PUT /transactions/:id") =>
          /\ last'.outcome = "updated"
          /\ \E t \in txDocs' \ txDocs :
                /\ t.isRecurring
                /\ t.recurringInterval \in {"daily", "weekly", "monthly"}
                /\ t.nextRecurringDate = OneIntervalLater(t.date, t.recurringInterval)]_vars

----------------------------------------------------------------------------
(* Properties of the budget and transaction routes (Spec), continued *)

\* C24: for every user, month and year, the sum of the category budget
\* amounts of the period does not exceed the total monthly budget amount
\* stored for the period.
C24_BudgetsWithinMonthlyTotal ==
    \A m \in monthlyDocs :
       SumAmount({b \in budgetDocs :
                    b.user = m.user /\ b.month = m.month /\ b.year = m.year})
          <= m.amount

----------------------------------------------------------------------------
(* Properties of generateRecommendations and its callers (SpecGen), continued *)

\* C25: at most one BudgetRL record exists per user, whatever the
\* interleaving of generateRecommendations and updateRecommendationsRealTime
\* calls for the user.
C25_OneModelPerUser ==
    \A d1, d2 \in rlDocs : d1.userId = d2.userId => d1.id = d2.id

----------------------------------------------------------------------------
(* Properties of the account routes (SpecAuth), continued *)

\* browser b's session holds a user id
LoggedIn(ss, b) == "userId" \in DOMAIN ss[b]

\* C26: a session acquires a userId only through POST /users/login for a
\* user that exists, has isVerified true and whose password matches the one
\* entered; so no session ever holds the id of a user who was not verified
\* when that login was made.
C26_SessionOnlyForVerifiedUser ==
    [][\A b \in Browsers :
          /\ LoggedIn(sessions', b) =>
                \E u \in userDocs' : u.id = sessions'[b].userId /\ u.isVerified
          /\ (LoggedIn(sessions', b) /\ sessions'[b] # sessions[b]) =>
                \E s \in Slots :
                   /\ req[s].pc = "login_match"
                   /\ req[s].browser = b
                   /\ req'[s] = Idle
                   /\ last'.op = "POST /users/login"
                   /\ \E u \in userDocs :
                         /\ u.id = sessions'[b].userId
                         /\ u.email = req[s].user.email
                         /\ u.isVerified
                         /\ req[s].user.password = Bcrypt(req[s].password)]_vars

\* a browser's session holds the id of a registered and verified user
C26_Witness ==
    \E b \in Browsers :
       /\ LoggedIn(sessions, b)
       /\ \E u \in userDocs : u.id = sessions[b].userId /\ u.isVerified
       /\ last.op = "POST /users/login"
       /\ last.outcome = "logged_in"

----------------------------------------------------------------------------
(* Properties of the budget and transaction routes (Spec): other users' records *)

\* record id of the collection is stored and owned by another user than u
OwnedByOther(docs, id, u) == \E d \in docs : d.id = id /\ d.user # u

\* the request is answered at once with the not-found/unauthorized outcome
\* and no stored document is touched
RefusedUntouched(op, u) ==
    /\ last' = Response(op, u, "error", FALSE, "none")
    /\ req' = req
    /\ budgetDocs' = budgetDocs /\ monthlyDocs' = monthlyDocs
    /\ txDocs' = txDocs /\ rlDocs' = rlDocs

\* C27: PUT and DELETE /transactions/:id and PUT and DELETE /budgets/:id,
\* requested by user U for a record owned by a different user V, leave every
\* record of V unchanged and end in the not-found/unauthorized outcome.
C27_OtherUsersRecordsUntouched ==
    [][\A s \in Slots, u \in Users :
          /\ \A id \in TxIds :
                OwnedByOther(txDocs, id, u) =>
                   /\ (\E ty \in TxTypes, c \in TxCategories, a \in TxAmounts :
                          PutTransaction(s, u, id, ty, c, a))
                         => RefusedUntouched("PUT /transactions/:id", u)
                   /\ DeleteTransaction(s, u, id)
                         => RefusedUntouched("DELETE /transactions/:id", u)
          /\ \A id \in BudgetIds :
                OwnedByOther(budgetDocs, id, u) =>
                   /\ (\E a \in BudgetAmounts : PutBudget(s, u, id, a))
                         => RefusedUntouched("PUT /budgets/:id", u)
                   /\ DeleteBudget(s, u, id)
                         => RefusedUntouched("DELETE /budgets/:id", u)]_vars

\* every transaction id is stored and owned by another user than the one
\* whose PUT /transactions/:id was just refused
C27_Witness ==
    /\ last.op = "PUT /transactions/:id"
    /\ last.outcome = "error"
    /\ \A id \in TxIds : OwnedByOther(txDocs, id, last.user)


(* Properties of the overall entry under unbudgeted expenses (SpecList) *)

\* the sum, over the current-period budgets, of the spent of each
BudgetedSpentOf(c) ==
    LET current == CurrentBudgets(c.budgets, c.now)
    IN  SumAmount(UNION {BudgetExpenses(current[i], c.transactions) :
                            i \in 1..Len(current)})

\* overallPace as it would be with the budgeted expenses alone as totalSpent
BudgetedPace(c) ==
    IF TotalBudgetOf(c) > 0
    THEN Rat(BudgetedSpentOf(c) * 100 * DaysInMonth(c.now.month),
             TotalBudgetOf(c) * c.now.day)
    ELSE RatInt(0)

\* C28: the type of the 'overall' entry of a returned list is the one that
\* follows from the current-period budgets and the expenses counted against
\* them alone: warning iff the pace computed from the sum of the per-budget
\* spent amounts is above 110, positive otherwise, so that an expense of a
\* category without a current-period budget does not change it.
C28_OverallFromBudgetedExpenses ==
    Returned(LastCall) =>
        \A k \in 1..Len(LastCall.list) :
            IsOverall(LastCall.list[k]) =>
                LastCall.list[k].type =
                    IF RatGT(BudgetedPace(LastCall), 110) THEN "warning" ELSE "positive"

=============================================================================
